---------------------------- MODULE Spec2Model ----------------------------
(***************************************************************************)
(* A model of the crawl engine of twitter-image-downloader:                *)
(*                                                                         *)
(*   - Semaphore             (src/utils/downloadTracker.js)                *)
(*   - PagePoolManager       (src/services/pagePoolManager.js)             *)
(*   - ParallelTweetProcessor (src/services/parallelTweetProcessor.js)     *)
(*   - ProgressTracker, TweetRepository and the crawl loop of ImageService *)
(*                                                                         *)
(* JavaScript runs one callback at a time: every action below is the code  *)
(* that runs between two suspension points (an await on a timer, on the    *)
(* browser, on a promise somebody else resolves).  Each component has its  *)
(* own initial predicate, next-state relation and specification.           *)
(***************************************************************************)
EXTENDS Integers, Sequences, FiniteSets, TLC

(***************************************************************************)
(* Bounds of the model.                                                    *)
(***************************************************************************)
NumCallers == 4      \* callers of a Semaphore
MaxPermits == 2      \* the largest `max` a Semaphore is created with

PoolSize   == 2      \* poolSize of the PagePoolManager
NumClients == 3      \* concurrent callers of acquirePage()
MaxPages   == 3      \* page objects that exist (created, not yet closed and dropped) at a time
MaxSat     == 1      \* satisfyWaiting() calls suspended at one slot
MaxFaults  == 1      \* faults of the browser in one behaviour: page 'error' and 'close' events, a disconnect

NumWorkers       == 2   \* maxWorkers of the ParallelTweetProcessor
NumItems         == 2   \* the longest list of URLs given to processAll()
MaxQueue         == 3   \* the longest tweetQueue (requeues make it grow)
MaxRetries       == 2   \* maxRetries
MaxRateLimits    == 1   \* RateLimitErrors one item meets
ManyRateLimits   == 3   \* RateLimitErrors one item meets where only the retries are studied
MaxCalls         == 2   \* calls of processAll()
StaggerDelay     == 1   \* staggerDelay, in clock ticks
RateLimitBackoff == 2   \* rateLimitBackoff, in clock ticks
RetryBase        == 1   \* the first retry backoff (5000 ms), in clock ticks
RetryCap         == 2   \* the longest retry backoff (30000 ms), in clock ticks

NumSources        == 1  \* accounts
NumTweets         == 2  \* tweets on the timelines
MaxCachedTweetIds == 1  \* the limit of getProcessedTweetIds()
MaxRuns           == 2  \* rows of processing_runs
MaxProcessed      == 3  \* the largest processed_tweets of a run

NumAccounts   == 2  \* account ids a tweet row is inserted with
MaxImageCount == 1  \* the largest image_count
NumImageUrls  == 1  \* image URLs of a tweet
MaxFileSize   == 1  \* the largest file_size
MaxBatch      == 2  \* the longest array given to createBatch()
NumMigrations == 5  \* entries of MIGRATIONS (the source has the first; later ones are appended)

Callers == 1..NumCallers
Sources  == 1..NumSources
TweetIds == 1..NumTweets
Workers == 1..NumWorkers
Urls    == 1..NumItems
Slots   == 1..PoolSize
Clients == 1..NumClients
PageIds == 1..MaxPages

VARIABLES
  \* ---- Semaphore ----
  semMax,       \* this.max
  semCurrent,   \* this.current
  semWaiting,   \* this.waiting: the callers whose resolve function is queued
  semPc,        \* where each caller is: "out", "waiting", "woken", "in"
  settled,      \* how each caller's latest withPermit(fn) call has settled
  \* ---- PagePoolManager and its browser ----
  connected,    \* browser.isConnected()
  initialized,  \* this.initialized
  pageStatus,   \* this.pageStatus[i]: "idle", "busy", "crashed" ("none": no entry yet)
  pages,        \* this.pages[i]: a page, or 0 for null
  waiting,      \* this.waiting: the clients whose resolve function is queued
  pageState,    \* each page object: "new" (none yet), "live", "crashed", "closed"
  pageSlot,     \* the index the page's 'error'/'close' listeners were bound to
  call,         \* each client's acquirePage() call and what it returned
  sat,          \* sat[i]: satisfyWaiting() calls suspended in `await createPage(i)`
  cleanupAt,    \* the cleanup() call: not called, closing the page of a slot, or done
  events,       \* the page events that have happened so far
  served,       \* the queued clients the latest step of the pool gave a slot
  \* ---- ParallelTweetProcessor ----
  procState,      \* the processAll() call: "idle", "launching", "awaiting", "resolved", "rejected"
  allCalls,       \* the processAll() calls made, and how many of them threw at once
  isProcessing,   \* this.isProcessing
  shouldStop,     \* this.shouldStop
  tweetQueue,     \* this.tweetQueue
  queueIndex,     \* this.queueIndex
  processedCount, \* this.processedCount
  failedCount,    \* this.failedCount
  results,        \* this.results
  backoffLeft,    \* max(0, this.globalBackoffUntil - Date.now())
  sinceGlobal,    \* Date.now() - lastGlobalAction, counted up to minGlobalDelay
  wk,             \* each worker() call: where it is and its local variables
  launched,       \* workers processAll() has started
  launchTimer,    \* what is left of processAll()'s sleep(staggerDelay)
  onComplete,     \* the URLs onTweetComplete was called with
  onProgress,     \* the URLs onProgress was called with (as `current`)
  \* ---- the store, ProgressTracker and the crawl loop of ImageService ----
  runs,              \* table processing_runs
  currentRunId,      \* progressTracker.currentRunId (0: null)
  tweets,            \* table tweets
  phase,             \* the crawl: "idle", "collecting", "processing", "fetching"
  crawlUser,         \* imageService.currentUsername / currentAccountDbId
  processedTweetIds, \* imageService.processedTweetIds, the known-ID set
  allSeenTweetIds,   \* allSeenTweetIds: every tweet the scan of the media page saw
  tweetArray,        \* tweetArray of fetchAllImagesForUser()
  tweetPos,          \* the loop index i, from 1
  shuttingDown,      \* gracefulShutdown() is running
  lastTweetId,       \* accounts.last_tweet_id of each source (0: NULL)
  newestTweetIdThisRun, \* imageService.newestTweetIdThisRun (0: null)
  lastCall,          \* the latest call of a ProgressTracker method, with what it returned
  \* ---- the tables tweets and images, row by row ----
  tweetRows,         \* table tweets: the rows in the order of their ids
  imageRows,         \* table images: the rows in the order of their ids
  lastTweet,         \* for each tweet ID, the data of the latest create()
  lastImage,         \* for each (tweet, URL), the data of the latest insert
  \* ---- the schema of the database ----
  schemaVersion,     \* table schema_version: the versions that have a row
  schemaChanges,     \* for each migration, what the database holds of its up(): "none", "partial", "full"
  applied,           \* the versions whose transaction has committed, in the order of the commits
  lastMigrate        \* the latest runMigrations() call: the ledger before it, the migrations that fail, whether it threw

semVars  == <<semMax, semCurrent, semWaiting, semPc>>
poolVars == <<connected, initialized, pageStatus, pages, waiting, pageState,
              pageSlot, call, sat, cleanupAt, events, served>>

procVars == <<procState, allCalls, isProcessing, shouldStop, tweetQueue, queueIndex,
              processedCount, failedCount, results, backoffLeft, sinceGlobal,
              wk, launched, launchTimer, onComplete, onProgress>>

accountVars == <<lastTweetId, newestTweetIdThisRun>>

storeVars == <<runs, currentRunId, tweets, phase, crawlUser, processedTweetIds,
               allSeenTweetIds, tweetArray, tweetPos, shuttingDown, accountVars>>

schemaVars == <<schemaVersion, schemaChanges, applied, lastMigrate>>

rowVars == <<tweetRows, imageRows, lastTweet, lastImage, schemaVars>>

ledgerVars == <<lastCall>>

permitVars == <<settled>>

vars == <<semVars, poolVars, procVars, storeVars, rowVars, ledgerVars, permitVars>>

(***************************************************************************)
(* Semaphore                                                               *)
(***************************************************************************)

\* constructor(max): max < 1 throws, so a Semaphore that exists has max >= 1.
SemInit ==
  /\ semMax \in 1..MaxPermits
  /\ semCurrent = 0
  /\ semWaiting = <<>>
  /\ semPc = [c \in Callers |-> "out"]

\* acquire(), up to its first await: take a permit if one is free, else queue
\* the promise's resolve function.
SemAcquire(c) ==
  /\ semPc[c] = "out"
  /\ IF semCurrent < semMax
       THEN /\ semCurrent' = semCurrent + 1
            /\ semPc' = [semPc EXCEPT ![c] = "in"]
            /\ UNCHANGED semWaiting
       ELSE /\ semWaiting' = Append(semWaiting, c)
            /\ semPc' = [semPc EXCEPT ![c] = "waiting"]
            /\ UNCHANGED semCurrent
  /\ UNCHANGED semMax

\* acquire(), after the await: the woken caller counts itself in.
SemResume(c) ==
  /\ semPc[c] = "woken"
  /\ semCurrent' = semCurrent + 1
  /\ semPc' = [semPc EXCEPT ![c] = "in"]
  /\ UNCHANGED <<semMax, semWaiting>>

\* release() by a caller that holds a permit: the count goes down (never
\* below 0) and the oldest waiter's promise is resolved; that waiter runs
\* later, as a microtask.
SemRelease(c) ==
  /\ semPc[c] = "in"
  /\ semCurrent' = IF semCurrent - 1 < 0 THEN 0 ELSE semCurrent - 1
  /\ IF Len(semWaiting) > 0
       THEN /\ semWaiting' = Tail(semWaiting)
            /\ semPc' = [semPc EXCEPT ![c] = "out", ![Head(semWaiting)] = "woken"]
       ELSE /\ semPc' = [semPc EXCEPT ![c] = "out"]
            /\ UNCHANGED semWaiting
  /\ UNCHANGED semMax

\* How fn() can end: it returns (a value or a promise that fulfils), it
\* throws, or it returns a promise that rejects.
Outcomes == {"returned", "threw", "rejected"}

PermitInit == settled = [c \in Callers |-> "none"]

\* withPermit(fn), had release() followed `return await fn()` without try
\* and finally.
ReleasedAfterReturn(outcome) == outcome = "returned"

\* withPermit(fn): whether the finally block, and so release(), runs for an
\* outcome of fn.
Finally(outcome) == TRUE

\* withPermit(fn), up to the first await inside acquire().
WithPermit(c) ==
  /\ SemAcquire(c)
  /\ settled' = [settled EXCEPT ![c] = "pending"]

\* withPermit(fn): acquire() resumes and fn is called.
WithPermitResume(c) ==
  /\ SemResume(c)
  /\ UNCHANGED settled

\* withPermit(fn): fn() has ended with `outcome`; the permit is released
\* and the call settles in the same way.
FnSettled(c, outcome) ==
  /\ settled[c] = "pending"
  /\ IF Finally(outcome)
       THEN SemRelease(c)
       ELSE /\ semPc[c] = "in"
            /\ semPc' = [semPc EXCEPT ![c] = "out"]
            /\ UNCHANGED <<semMax, semCurrent, semWaiting>>
  /\ settled' = [settled EXCEPT ![c] = outcome]

(***************************************************************************)
(* PagePoolManager                                                         *)
(*                                                                         *)
(* The pool's fields are gathered in a record P so that the synchronous    *)
(* part of each method is a function from pool state to pool state.        *)
(***************************************************************************)

NoCall == [st |-> "none", slot |-> 0, page |-> 0]

\* cleanup() has not been called.
NoCleanup == [st |-> "idle", slot |-> 0, page |-> 0]

\* constructor(browser, poolSize): empty arrays, nothing initialized.
PoolInit ==
  /\ connected = TRUE
  /\ initialized = FALSE
  /\ pageStatus = [i \in Slots |-> "none"]
  /\ pages = [i \in Slots |-> 0]
  /\ waiting = <<>>
  /\ pageState = [p \in PageIds |-> "new"]
  /\ pageSlot = [p \in PageIds |-> 0]
  /\ call = [c \in Clients |-> NoCall]
  /\ sat = [i \in Slots |-> 0]
  /\ cleanupAt = NoCleanup
  /\ events = 0
  /\ served = {}

Pool ==
  [status |-> pageStatus, pages |-> pages, waiting |-> waiting,
   pageState |-> pageState, pageSlot |-> pageSlot, call |-> call, sat |-> sat,
   closing |-> cleanupAt.page]

\* A closed page that neither the pool, nor a client, nor a suspended
\* cleanup() refers to is garbage; its identifier stands for a new page
\* object again.
Garbage(P) ==
  {p \in PageIds : /\ P.pageState[p] = "closed"
                   /\ \A i \in Slots : P.pages[i] # p
                   /\ \A c \in Clients : P.call[c].page # p
                   /\ P.closing # p}

SetPool(P) ==
  /\ pageStatus' = P.status
  /\ pages' = P.pages
  /\ waiting' = P.waiting
  /\ pageState' = [p \in PageIds |-> IF p \in Garbage(P) THEN "new" ELSE P.pageState[p]]
  /\ pageSlot' = [p \in PageIds |-> IF p \in Garbage(P) THEN 0 ELSE P.pageSlot[p]]
  /\ call' = P.call
  /\ sat' = P.sat
  /\ served' = {c \in Clients : call[c].st = "queued" /\ P.call[c].st = "holding"}

SatWithinBound(P) == \A i \in Slots : P.sat[i] <= MaxSat

\* page.isClosed()
IsClosed(P, p) == P.pageState[p] = "closed"

\* The page object browser.newPage() returns next.
FreshPages(P) == {p \in PageIds : P.pageState[p] = "new"}
NewPage(P) == CHOOSE p \in FreshPages(P) : \A q \in FreshPages(P) : p <= q

\* createPage(index), when it succeeds: a live page whose listeners are bound
\* to index.
CreatePage(P, i) ==
  [P EXCEPT !.pageState[NewPage(P)] = "live", !.pageSlot[NewPage(P)] = i]

\* resolve({page: this.pages[i], pageIndex: i, release: () => this.releasePage(i)})
\* handed to client c.
HandOver(P, c, i) ==
  [P EXCEPT !.call[c] = [st |-> "holding", slot |-> i, page |-> P.pages[i]]]

\* handlePageError(index)
HandlePageError(P, i) ==
  [P EXCEPT !.status[i] = "crashed", !.pages[i] = 0]

\* handlePageClosed(index)
HandlePageClosed(P, i) ==
  IF P.status[i] # "crashed"
    THEN [P EXCEPT !.status[i] = "crashed", !.pages[i] = 0]
    ELSE P

BusyCount(P) == Cardinality({i \in Slots : P.status[i] = "busy"})

\* satisfyWaiting(), run until it suspends in `await createPage(i)` (sat[i]
\* goes up) or returns.  SatFor is the for loop from index i on, SatAfterFor
\* the busyCount test after it, SatWhile the while test.
RECURSIVE SatFor(_, _)
SatFor(P, i) ==
  LET AfterFor(Q) ==
        IF BusyCount(Q) >= PoolSize \/ Len(Q.waiting) = 0 THEN Q ELSE SatFor(Q, 1)
  IN
  IF i > PoolSize THEN AfterFor(P)
  ELSE IF P.status[i] = "idle" /\ P.pages[i] # 0
    THEN IF Len(P.waiting) > 0
           THEN AfterFor(HandOver([P EXCEPT !.waiting = Tail(@), !.status[i] = "busy"],
                                  Head(P.waiting), i))
           \* waiting.shift() gave undefined: resolve(...) throws after the
           \* slot was marked busy, and the exception ends satisfyWaiting.
           ELSE [P EXCEPT !.status[i] = "busy"]
  ELSE IF P.status[i] = "crashed"
    THEN [P EXCEPT !.sat[i] = @ + 1]
  ELSE SatFor(P, i + 1)

SatisfyWaiting(P) == IF Len(P.waiting) > 0 THEN SatFor(P, 1) ELSE P

\* releasePage(pageIndex), had it left a valid slot idle for the next
\* acquirePage() call whoever is queued.
ReleasePageIdle(P, i) ==
  IF P.pages[i] # 0 /\ ~IsClosed(P, P.pages[i])
    THEN [P EXCEPT !.status[i] = "idle"]
    ELSE SatisfyWaiting([P EXCEPT !.status[i] = "crashed", !.pages[i] = 0])

\* releasePage(pageIndex), with the satisfyWaiting() it starts.
ReleasePage(P, i) ==
  IF P.pages[i] # 0 /\ ~IsClosed(P, P.pages[i])
    THEN IF Len(P.waiting) > 0
           THEN HandOver([P EXCEPT !.waiting = Tail(@), !.status[i] = "busy"],
                         Head(P.waiting), i)
           ELSE [P EXCEPT !.status[i] = "idle"]
    ELSE SatisfyWaiting([P EXCEPT !.status[i] = "crashed", !.pages[i] = 0])

\* acquirePage(): the first idle slot, if any.
IdleSlots(P) == {i \in Slots : P.status[i] = "idle" /\ P.pages[i] # 0}

\* acquirePage(): the second loop from index i on.  The first crashed slot is
\* re-created (the call suspends in `await createPage(j)`); with none left the
\* resolve function is queued.
AcquireScan(P, c, i) ==
  LET crashed == {j \in Slots : j >= i /\ P.status[j] = "crashed"} IN
  IF crashed # {}
    THEN [P EXCEPT !.call[c] =
            [st |-> "creating", page |-> 0,
             slot |-> CHOOSE j \in crashed : \A k \in crashed : j <= k]]
    ELSE [P EXCEPT !.waiting = Append(@, c),
                   !.call[c] = [st |-> "queued", slot |-> 0, page |-> 0]]

\* acquirePage() with the browser connected, up to its first await.
AcquireSync(P, c) ==
  IF IdleSlots(P) # {}
    THEN LET i == CHOOSE j \in IdleSlots(P) : \A k \in IdleSlots(P) : j <= k
         IN HandOver([P EXCEPT !.status[i] = "busy"], c, i)
    ELSE AcquireScan(P, c, 1)

\* acquirePage() called by client c.
AcquirePage(c) ==
  /\ call[c].st = "none"
  /\ IF ~connected
       \* throw new BrowserDisconnectedError: the caller has the exception
       \* at once and the pool is as it was.
       THEN SetPool(Pool)
       ELSE SetPool(AcquireSync(Pool, c))
  /\ UNCHANGED <<connected, initialized, cleanupAt, events>>

\* acquirePage() after `await createPage(i)` succeeded: the slot is taken
\* without looking at its status again.
AcquireCreated(c) ==
  /\ call[c].st = "creating"
  /\ connected
  /\ FreshPages(Pool) # {}
  /\ LET i == call[c].slot
         P == CreatePage(Pool, i)
     IN SetPool(HandOver([P EXCEPT !.pages[i] = NewPage(Pool), !.status[i] = "busy"], c, i))
  /\ UNCHANGED <<connected, initialized, cleanupAt, events>>

\* acquirePage() after `await createPage(i)` threw: the loop goes on.
AcquireCreateFailed(c) ==
  /\ call[c].st = "creating"
  /\ SetPool(AcquireScan(Pool, c, call[c].slot + 1))
  /\ UNCHANGED <<connected, initialized, cleanupAt, events>>

\* The holder calls its release callback.
Release(c) ==
  /\ call[c].st = "holding"
  /\ LET P == ReleasePage([Pool EXCEPT !.call[c] = NoCall], call[c].slot)
     IN SatWithinBound(P) /\ SetPool(P)
  /\ UNCHANGED <<connected, initialized, cleanupAt, events>>

\* satisfyWaiting() after `await createPage(i)` succeeded.
SatCreated(i) ==
  /\ sat[i] > 0
  /\ connected
  /\ FreshPages(Pool) # {}
  /\ LET P0 == CreatePage([Pool EXCEPT !.sat[i] = @ - 1], i)
         P1 == [P0 EXCEPT !.pages[i] = NewPage(Pool)]
         P  == IF Len(P1.waiting) > 0
                 THEN LET Q == HandOver([P1 EXCEPT !.waiting = Tail(@), !.status[i] = "busy"],
                                        Head(P1.waiting), i)
                      IN IF BusyCount(Q) >= PoolSize THEN Q ELSE SatisfyWaiting(Q)
                 \* resolve is undefined: the TypeError is caught by the
                 \* catch around createPage and the for loop goes on.
                 ELSE SatFor([P1 EXCEPT !.status[i] = "busy"], i + 1)
     IN SatWithinBound(P) /\ SetPool(P)
  /\ UNCHANGED <<connected, initialized, cleanupAt, events>>

\* satisfyWaiting() after `await createPage(i)` threw.
SatCreateFailed(i) ==
  /\ sat[i] > 0
  /\ LET P == SatFor([Pool EXCEPT !.sat[i] = @ - 1], i + 1)
     IN SatWithinBound(P) /\ SetPool(P)
  /\ UNCHANGED <<connected, initialized, cleanupAt, events>>

\* The faults so far: page events and the disconnect.
Faults == events + (IF connected THEN 0 ELSE 1)

\* The page's 'error' event (the page crashed).
PageError(p) ==
  /\ pageState[p] = "live"
  /\ Faults < MaxFaults
  /\ events' = events + 1
  /\ SetPool(HandlePageError([Pool EXCEPT !.pageState[p] = "crashed"], pageSlot[p]))
  /\ UNCHANGED <<connected, initialized, cleanupAt>>

\* The page's 'close' event; page.isClosed() is true from here on.
PageClose(p) ==
  /\ pageState[p] \in {"live", "crashed"}
  /\ Faults < MaxFaults
  /\ events' = events + 1
  /\ SetPool(HandlePageClosed([Pool EXCEPT !.pageState[p] = "closed"], pageSlot[p]))
  /\ UNCHANGED <<connected, initialized, cleanupAt>>

\* The browser disconnects; it never reconnects.
Disconnect ==
  /\ connected
  /\ Faults < MaxFaults
  /\ connected' = FALSE
  /\ UNCHANGED <<initialized, pageStatus, pages, waiting, pageState, pageSlot,
                 call, sat, cleanupAt, events, served>>

\* cleanup(): resolve(null) for every queued caller.
RECURSIVE RefuseWaiting(_)
RefuseWaiting(P) ==
  IF Len(P.waiting) = 0 THEN P
  ELSE RefuseWaiting([P EXCEPT !.waiting = Tail(@),
                               !.call[Head(P.waiting)] =
                                  [st |-> "null", slot |-> 0, page |-> 0]])

\* cleanup(): the for loop from index i on, until it suspends in
\* `await this.pages[i].close()` or ends.  The result is the pool and where
\* the call is.
RECURSIVE CleanupFrom(_, _)
CleanupFrom(P, i) ==
  IF i > PoolSize
    THEN [pool |-> [P EXCEPT !.closing = 0],
          at |-> [st |-> "done", slot |-> 0, page |-> 0]]
  ELSE IF P.pages[i] # 0 /\ ~IsClosed(P, P.pages[i])
    THEN [pool |-> [P EXCEPT !.closing = P.pages[i]],
          at |-> [st |-> "closing", slot |-> i, page |-> P.pages[i]]]
  ELSE CleanupFrom([P EXCEPT !.pages[i] = 0, !.status[i] = "crashed"], i + 1)

\* cleanup() is called: up to its first await, or to its end.
Cleanup ==
  /\ cleanupAt.st = "idle"
  /\ LET r == CleanupFrom(RefuseWaiting(Pool), 1)
     IN /\ SetPool(r.pool)
        /\ cleanupAt' = r.at
        /\ initialized' = IF r.at.st = "done" THEN FALSE ELSE initialized
  /\ UNCHANGED <<connected, events>>

\* cleanup() after `await this.pages[i].close()`: the page is closed and its
\* 'close' listener has run (closed is true), or close() threw; the slot is
\* emptied and the loop goes on.
CleanupClosed(closed) ==
  /\ cleanupAt.st = "closing"
  /\ LET i  == cleanupAt.slot
         pg == cleanupAt.page
         P0 == IF closed /\ ~IsClosed(Pool, pg)
                 THEN HandlePageClosed([Pool EXCEPT !.pageState[pg] = "closed"],
                                       pageSlot[pg])
                 ELSE Pool
         r  == CleanupFrom([P0 EXCEPT !.pages[i] = 0, !.status[i] = "crashed"], i + 1)
     IN /\ SetPool(r.pool)
        /\ cleanupAt' = r.at
        /\ initialized' = IF r.at.st = "done" THEN FALSE ELSE initialized
  /\ UNCHANGED <<connected, events>>

\* An initialize() that gives up at the first createPage() that throws.
RECURSIVE InitSlotsUntilFailure(_, _, _)
InitSlotsUntilFailure(P, i, failed) ==
  IF i > PoolSize \/ i \in failed THEN P
  ELSE InitSlotsUntilFailure([CreatePage(P, i) EXCEPT !.pages[i] = NewPage(P),
                                                     !.status[i] = "idle"],
                             i + 1, failed)

\* initialize(): one createPage per slot; the slots in `failed` throw.  With
\* every slot failed the method throws and initialized stays false.
RECURSIVE InitSlots(_, _, _)
InitSlots(P, i, failed) ==
  IF i > PoolSize THEN P
  ELSE IF i \in failed
    THEN InitSlots([P EXCEPT !.pages[i] = 0, !.status[i] = "crashed"], i + 1, failed)
    ELSE InitSlots([CreatePage(P, i) EXCEPT !.pages[i] = NewPage(P), !.status[i] = "idle"],
                   i + 1, failed)

Initialize ==
  /\ ~initialized
  /\ \A i \in Slots : pageStatus[i] = "none"
  /\ \E failed \in SUBSET Slots :
       /\ ~connected => failed = Slots
       /\ SetPool(InitSlots(Pool, 1, failed))
       /\ initialized' = (failed # Slots)
  /\ UNCHANGED <<connected, cleanupAt, events>>

(***************************************************************************)
(* ParallelTweetProcessor                                                  *)
(*                                                                         *)
(* Worker w is the pool's client w.  Time is kept relative to now: the     *)
(* Tick action lets one unit of time pass.  The processor's fields and the *)
(* pool are gathered in a record R so that the code a worker runs between  *)
(* two suspensions is a function from state to state.                      *)
(***************************************************************************)

ErrorKinds == {"RateLimit", "SessionExpired", "NavigationTimeout",
               "TweetNotFound", "PageCrashed"}

\* An isRetryableError() for which every error is worth another try.
IsRetryableAnyError(e) == TRUE

\* isRetryableError(error)
IsRetryableError(e) ==
  IF e = "NavigationTimeout" THEN TRUE
  ELSE IF e = "RateLimit" THEN TRUE
  ELSE IF e = "PageCrashed" THEN TRUE
  ELSE IF e = "SessionExpired" THEN TRUE
  ELSE FALSE

Min(a, b) == IF a < b THEN a ELSE b

\* Math.min(5000 * Math.pow(2, attempt - 1), 30000)
RetryBackoff(attempt) == Min(RetryBase * 2^(attempt - 1), RetryCap)

\* A worker that is not running; attempt, lastError, calls, rateLimits,
\* triggers and window belong to the processTweetWithRetry() call in progress
\* (calls: processFn invocations, rateLimits: RateLimitErrors caught,
\* triggers: triggerGlobalBackoff() calls, window: what was left of the
\* global backoff when the call last triggered it).
NoWorker ==
  [pc |-> "idle", url |-> 0, attempt |-> 0, lastError |-> "none",
   calls |-> 0, rateLimits |-> 0, triggers |-> 0, window |-> 0, timer |-> 0]

\* constructor(pagePool, options)
ProcInit ==
  /\ procState = "idle"
  /\ allCalls = [made |-> 0, threw |-> 0]
  /\ isProcessing = FALSE
  /\ shouldStop = FALSE
  /\ tweetQueue = <<>>
  /\ queueIndex = 0
  /\ processedCount = 0
  /\ failedCount = 0
  /\ results = <<>>
  /\ backoffLeft = 0
  /\ sinceGlobal = StaggerDelay
  /\ wk = [w \in Workers |-> NoWorker]
  /\ launched = 0
  /\ launchTimer = 0
  /\ onComplete = {}
  /\ onProgress = {}

Proc ==
  [queue |-> tweetQueue, index |-> queueIndex, stop |-> shouldStop,
   processed |-> processedCount, failed |-> failedCount, results |-> results,
   backoff |-> backoffLeft, since |-> sinceGlobal, wk |-> wk,
   complete |-> onComplete, progress |-> onProgress, pool |-> Pool]

SetProc(R) ==
  /\ tweetQueue' = R.queue
  /\ queueIndex' = R.index
  /\ shouldStop' = R.stop
  /\ processedCount' = R.processed
  /\ failedCount' = R.failed
  /\ results' = R.results
  /\ backoffLeft' = R.backoff
  /\ sinceGlobal' = R.since
  /\ wk' = R.wk
  /\ onComplete' = R.complete
  /\ onProgress' = R.progress
  /\ SetPool(R.pool)

ProcWithinBound(R) == Len(R.queue) <= MaxQueue /\ SatWithinBound(R.pool)

\* The page worker w was given.
PageOf(R, w) == R.pool.call[w].page

\* The worker is back at `while (!this.shouldStop)`.
Top(R, w) == [R EXCEPT !.wk[w] = [NoWorker EXCEPT !.pc = "top"]]

\* finally { release(); }
ReleaseSlot(R, w) ==
  [R EXCEPT !.pool = ReleasePage([R.pool EXCEPT !.call[w] = NoCall],
                                 R.pool.call[w].slot)]

\* What a result says about the processTweetWithRetry() call that made it.
Ghost(R, w) ==
  [calls |-> R.wk[w].calls, rateLimits |-> R.wk[w].rateLimits,
   triggers |-> R.wk[w].triggers]

\* worker(), lines 159-173 and the finally: the result is pushed and counted,
\* both callbacks are called, the page is released.
Complete(R, w, success, error, attempts) ==
  LET res == [url |-> R.wk[w].url, success |-> success, error |-> error,
              attempts |-> attempts, ghost |-> Ghost(R, w)]
      R1 == [R EXCEPT !.results = Append(@, res),
                      !.processed = IF success THEN @ + 1 ELSE @,
                      !.failed = IF success THEN @ ELSE @ + 1,
                      !.complete = @ \cup {res.url},
                      !.progress = @ \cup {res.url}]
  IN Top(ReleaseSlot(R1, w), w)

\* A worker() whose catch block rethrows every error.
ThrownRethrown(R, w, e) ==
  [ReleaseSlot([R EXCEPT !.stop = TRUE], w)
     EXCEPT !.wk[w] = [NoWorker EXCEPT !.pc = "threw", !.lastError = e]]

\* worker(), the catch block of lines 175-190 and the finally, for error e
\* thrown by processTweetWithRetry(); a worker that has thrown keeps the
\* error it threw in lastError.
Thrown(R, w, e) ==
  IF e = "SessionExpired"
    THEN [ReleaseSlot([R EXCEPT !.stop = TRUE], w)
            EXCEPT !.wk[w] = [NoWorker EXCEPT !.pc = "threw", !.lastError = e]]
    ELSE LET res == [url |-> R.wk[w].url, success |-> FALSE, error |-> e,
                     attempts |-> 0, ghost |-> Ghost(R, w)]
         IN Top(ReleaseSlot([R EXCEPT !.failed = @ + 1,
                                      !.results = Append(@, res)], w), w)

\* A backoff that adds the duration to what is left of the window.
TriggerGlobalBackoffAdded(R) == [R EXCEPT !.backoff = @ + RateLimitBackoff]

\* triggerGlobalBackoff(): globalBackoffUntil = Date.now() + rateLimitBackoff
TriggerGlobalBackoff(R) == [R EXCEPT !.backoff = RateLimitBackoff]

\* A rate-limited try that does count as an attempt.
AfterRateLimitCounted(attempt) == attempt

\* attempt-- after a RateLimitError
AfterRateLimit(attempt) == attempt - 1

\* processTweetWithRetry(): the for loop from `attempt` on, up to the call of
\* processFn (lines 243-250), or the failure result after the loop (292-297).
Attempt(R, w, attempt) ==
  IF attempt > MaxRetries
    THEN Complete(R, w, FALSE, R.wk[w].lastError, MaxRetries)
  ELSE IF IsClosed(R.pool, PageOf(R, w))
    THEN Thrown([R EXCEPT !.wk[w].lastError = "PageCrashed"], w, "PageCrashed")
  ELSE [R EXCEPT !.wk[w].pc = "extract", !.wk[w].attempt = attempt,
                 !.wk[w].calls = @ + 1]

\* processTweetWithRetry(): the catch block (lines 259-289) for error e.
Caught(R, w, e) ==
  LET R1 == [R EXCEPT !.wk[w].lastError = e]
      attempt == R.wk[w].attempt
  IN
  IF e = "RateLimit"
    THEN Attempt(TriggerGlobalBackoff([R1 EXCEPT !.wk[w].triggers = @ + 1,
                                                 !.wk[w].window = R.backoff]),
                 w, AfterRateLimit(attempt) + 1)
  ELSE IF e = "PageCrashed" \/ IsClosed(R.pool, PageOf(R, w))
    THEN Thrown(R1, w, e)
  ELSE IF ~IsRetryableError(e)
    THEN Complete(R1, w, FALSE, e, MaxRetries)
  ELSE IF attempt < MaxRetries
    THEN [R1 EXCEPT !.wk[w].pc = "retry", !.wk[w].timer = RetryBackoff(attempt)]
  ELSE Attempt(R1, w, attempt + 1)

\* requeueTweet(tweet)
RequeueTweet(R, url) == [R EXCEPT !.queue = Append(@, url)]

\* worker(), lines 130-157: acquirePage() up to its first await; with a page
\* in hand processTweetWithRetry() starts, with an exception the item is put
\* back and the loop goes on.
AcquireFor(R, w) ==
  IF ~connected
    THEN Top(RequeueTweet(R, R.wk[w].url), w)
    ELSE LET R1 == [R EXCEPT !.pool = AcquireSync(R.pool, w)]
         IN IF R1.pool.call[w].st = "holding"
              THEN Attempt(R1, w, 1)
              ELSE [R1 EXCEPT !.wk[w].pc = "acquire"]

\* applyGlobalStagger(): sleep if the last global action is too recent, else
\* go on at once.
ApplyGlobalStagger(R, w) ==
  IF R.since < StaggerDelay
    THEN [R EXCEPT !.wk[w].pc = "stagger", !.wk[w].timer = StaggerDelay - R.since]
    ELSE AcquireFor([R EXCEPT !.since = 0], w)

\* waitForBackoff(): sleep for what is left of the backoff now, else go on.
WaitForBackoff(R, w) ==
  IF R.backoff > 0
    THEN [R EXCEPT !.wk[w].pc = "backoff", !.wk[w].timer = R.backoff]
    ELSE ApplyGlobalStagger(R, w)

\* A worker loop that does not look at shouldStop.
GetNextTweetUnstopped(R, w) ==
  IF R.index >= Len(R.queue)
    THEN [R EXCEPT !.wk[w] = [NoWorker EXCEPT !.pc = "done"]]
    ELSE WaitForBackoff([R EXCEPT !.index = @ + 1,
                                  !.wk[w].url = R.queue[R.index + 1]], w)

\* A getNextTweet() that hands out the item at the cursor and leaves the
\* cursor where it is.
GetNextTweetAgain(R, w) ==
  IF R.stop \/ R.index >= Len(R.queue)
    THEN [R EXCEPT !.wk[w] = [NoWorker EXCEPT !.pc = "done"]]
    ELSE WaitForBackoff([R EXCEPT !.wk[w].url = R.queue[R.index + 1]], w)

\* `while (!this.shouldStop)`, getNextTweet() and what follows it in worker()
\* (lines 116-128).  The function getNextTweet() runs under queueLock is
\* synchronous: the item is read and the cursor moved in one piece.
GetNextTweet(R, w) ==
  IF R.stop \/ R.index >= Len(R.queue)
    THEN [R EXCEPT !.wk[w] = [NoWorker EXCEPT !.pc = "done"]]
    ELSE WaitForBackoff([R EXCEPT !.index = @ + 1,
                                  !.wk[w].url = R.queue[R.index + 1]], w)

procFrame == <<connected, initialized, cleanupAt, events, procState, allCalls,
               isProcessing, launched, launchTimer>>

WorkerStep(R) == ProcWithinBound(R) /\ SetProc(R) /\ UNCHANGED procFrame

\* A worker at the top of its loop pulls the next item, or exits.
Pull(w) ==
  /\ wk[w].pc = "top"
  /\ WorkerStep(GetNextTweet(Proc, w))

\* The sleep of waitForBackoff() is over.
BackoffWake(w) ==
  /\ wk[w].pc = "backoff" /\ wk[w].timer = 0
  /\ WorkerStep(ApplyGlobalStagger(Proc, w))

\* The sleep of applyGlobalStagger() is over: lastGlobalAction = Date.now().
StaggerWake(w) ==
  /\ wk[w].pc = "stagger" /\ wk[w].timer = 0
  /\ WorkerStep(AcquireFor([Proc EXCEPT !.since = 0], w))

\* The pool resolved the worker's acquirePage() with a page.
Acquired(w) ==
  /\ wk[w].pc = "acquire" /\ call[w].st = "holding"
  /\ WorkerStep(Attempt(Proc, w, 1))

\* worker(), lines 132-137: acquirePage() resolved with null (the pool is
\* shutting down); `break` leaves the loop with the item in the worker's hand.
PoolShutDown(R, w) ==
  [R EXCEPT !.wk[w] = [NoWorker EXCEPT !.pc = "done"], !.pool.call[w] = NoCall]

AcquiredNull(w) ==
  /\ wk[w].pc = "acquire" /\ call[w].st = "null"
  /\ WorkerStep(PoolShutDown(Proc, w))

\* processFn returned: the success result of lines 252-257.
ExtractOk(w) ==
  /\ wk[w].pc = "extract"
  /\ connected /\ pageState[call[w].page] = "live"
  /\ WorkerStep(Complete(Proc, w, TRUE, "none", wk[w].attempt))

\* processFn threw error e.
ExtractFailedWithin(w, e, limit) ==
  /\ wk[w].pc = "extract"
  /\ e = "RateLimit" => wk[w].rateLimits < limit
  /\ WorkerStep(Caught([Proc EXCEPT !.wk[w].rateLimits =
                           IF e = "RateLimit" THEN @ + 1 ELSE @], w, e))

ExtractFailed(w, e) == ExtractFailedWithin(w, e, MaxRateLimits)

\* The sleep before a retry is over.
RetryWake(w) ==
  /\ wk[w].pc = "retry" /\ wk[w].timer = 0
  /\ WorkerStep(Attempt(Proc, w, wk[w].attempt + 1))

\* A processAll() without the isProcessing test: every call starts a run.
ProcessAllUnguarded(n) ==
  /\ initialized
  /\ allCalls.made < MaxCalls
  /\ allCalls' = [allCalls EXCEPT !.made = @ + 1]
  /\ isProcessing' = TRUE
  /\ shouldStop' = FALSE
  /\ tweetQueue' = [k \in 1..n |-> k]
  /\ queueIndex' = 0
  /\ processedCount' = 0
  /\ failedCount' = 0
  /\ results' = <<>>
  /\ wk' = [wk EXCEPT ![1] = [NoWorker EXCEPT !.pc = "top"]]
  /\ launched' = 1
  /\ launchTimer' = IF NumWorkers > 1 THEN StaggerDelay ELSE 0
  /\ procState' = IF NumWorkers > 1 THEN "launching" ELSE "awaiting"
  /\ UNCHANGED <<backoffLeft, sinceGlobal, onComplete, onProgress, poolVars>>

\* processAll(tweetUrls, ...) with the first n URLs, on a pool that
\* createPagePool() has initialized.  During a run the call throws at once;
\* else the state is reset and worker 1 starts (a processor runs once).
ProcessAll(n) ==
  /\ initialized
  /\ allCalls.made < MaxCalls
  /\ IF isProcessing
       THEN /\ allCalls' = [allCalls EXCEPT !.made = @ + 1, !.threw = @ + 1]
            /\ UNCHANGED <<procState, isProcessing, shouldStop, tweetQueue,
                           queueIndex, processedCount, failedCount, results, wk,
                           launched, launchTimer>>
       ELSE /\ procState = "idle"
            /\ allCalls' = [allCalls EXCEPT !.made = @ + 1]
            /\ isProcessing' = TRUE
            /\ shouldStop' = FALSE
            /\ tweetQueue' = [k \in 1..n |-> k]
            /\ queueIndex' = 0
            /\ processedCount' = 0
            /\ failedCount' = 0
            /\ results' = <<>>
            /\ wk' = [wk EXCEPT ![1] = [NoWorker EXCEPT !.pc = "top"]]
            /\ launched' = 1
            /\ launchTimer' = IF NumWorkers > 1 THEN StaggerDelay ELSE 0
            /\ procState' = IF NumWorkers > 1 THEN "launching" ELSE "awaiting"
  /\ UNCHANGED <<backoffLeft, sinceGlobal, onComplete, onProgress, poolVars>>

\* processAll(): sleep(staggerDelay) is over, the next worker starts; after
\* the last one processAll() awaits Promise.all(workers).
LaunchWorker ==
  /\ procState = "launching" /\ launchTimer = 0
  /\ wk' = [wk EXCEPT ![launched + 1] = [NoWorker EXCEPT !.pc = "top"]]
  /\ launched' = launched + 1
  /\ launchTimer' = IF launched + 1 < NumWorkers THEN StaggerDelay ELSE 0
  /\ procState' = IF launched + 1 < NumWorkers THEN "launching" ELSE "awaiting"
  /\ UNCHANGED <<allCalls, isProcessing, shouldStop, tweetQueue, queueIndex,
                 processedCount, failedCount, results, backoffLeft, sinceGlobal,
                 onComplete, onProgress, poolVars>>

\* Promise.all(workers) settles: rejected as soon as one worker has thrown,
\* resolved when all have returned; the finally clears isProcessing.
Settle ==
  /\ procState = "awaiting"
  /\ \/ /\ \E w \in Workers : wk[w].pc = "threw"
        /\ procState' = "rejected"
     \/ /\ \A w \in Workers : wk[w].pc = "done"
        /\ procState' = "resolved"
  /\ isProcessing' = FALSE
  /\ UNCHANGED <<allCalls, shouldStop, tweetQueue, queueIndex, processedCount,
                 failedCount, results, backoffLeft, sinceGlobal, wk, launched,
                 launchTimer, onComplete, onProgress, poolVars>>

\* stop(), called during a run.
Stop ==
  /\ isProcessing /\ ~shouldStop
  /\ shouldStop' = TRUE
  /\ UNCHANGED <<procState, allCalls, isProcessing, tweetQueue, queueIndex,
                 processedCount, failedCount, results, backoffLeft, sinceGlobal,
                 wk, launched, launchTimer, onComplete, onProgress, poolVars>>

\* One unit of time passes: every pending sleep has one unit less to go.
\* Node runs the timers in the order in which they fall due.
Dec(t) == IF t > 0 THEN t - 1 ELSE 0
Sleeping(w) == wk[w].pc \in {"backoff", "stagger", "retry"}
Tick ==
  /\ isProcessing
  /\ \/ backoffLeft > 0 \/ launchTimer > 0 \/ sinceGlobal < StaggerDelay
     \/ \E w \in Workers : wk[w].timer > 0
  \* a timer that is due fires before time moves on
  /\ \A w \in Workers : Sleeping(w) => wk[w].timer > 0
  /\ procState = "launching" => launchTimer > 0
  /\ backoffLeft' = Dec(backoffLeft)
  /\ launchTimer' = Dec(launchTimer)
  /\ sinceGlobal' = Min(sinceGlobal + 1, StaggerDelay)
  /\ wk' = [w \in Workers |-> [wk[w] EXCEPT !.timer = Dec(@)]]
  /\ UNCHANGED <<procState, allCalls, isProcessing, shouldStop, tweetQueue,
                 queueIndex, processedCount, failedCount, results, launched,
                 onComplete, onProgress, poolVars>>

(***************************************************************************)
(* The store and the sequential crawl loop                                 *)
(*                                                                         *)
(* processing_runs is a sequence (a row's id is its position), tweets a    *)
(* function from tweet id to row.  processed_at is kept as a rank: only    *)
(* the order of the timestamps is ever used.                               *)
(***************************************************************************)

\* The account a tweet belongs to.
Owner(t) == ((t - 1) % NumSources) + 1

NoTweet == [status |-> "none", account |-> 0, stamp |-> 0]

\* An empty database and a fresh process.
StoreInit ==
  /\ runs = <<>>
  /\ currentRunId = 0
  /\ tweets = [t \in TweetIds |-> NoTweet]
  /\ phase = "idle"
  /\ crawlUser = 0
  /\ processedTweetIds = {}
  /\ allSeenTweetIds = {}
  /\ tweetArray = <<>>
  /\ tweetPos = 0
  /\ shuttingDown = FALSE
  /\ lastTweetId = [s \in Sources |-> 0]
  /\ newestTweetIdThisRun = 0

\* findIncompleteRun(username), had it found nothing.
FindIncompleteRunBlind(R, s) == 0

\* findIncompleteRun(username): the newest in_progress row, 0 for none.
InProgressRuns(R, s) ==
  {r \in DOMAIN R : R[r].username = s /\ R[r].status = "in_progress"}
FindIncompleteRun(R, s) ==
  IF InProgressRuns(R, s) = {} THEN 0
  ELSE CHOOSE r \in InProgressRuns(R, s) : \A q \in InProgressRuns(R, s) : q <= r

\* cancelRun(runId)
CancelRun(R, r) ==
  IF R[r].status = "in_progress" THEN [R EXCEPT ![r].status = "cancelled"] ELSE R

\* interruptRun(): the status of the current run, whatever it is, becomes
\* interrupted; currentRunId stays.
InterruptRun(R, r) == IF r = 0 THEN R ELSE [R EXCEPT ![r].status = "interrupted"]

\* completeRun(), the row; the caller clears currentRunId.
CompleteRun(R, r) == IF r = 0 THEN R ELSE [R EXCEPT ![r].status = "completed"]

\* markTweetProcessed(result)
MarkTweetProcessed(R, r) ==
  IF r = 0 THEN R ELSE [R EXCEPT ![r].processed = @ + 1]

\* startOrResumeRun(username, tweetUrls): the rows afterwards.
StartOrResumeRun(R, s, n) ==
  IF FindIncompleteRun(R, s) # 0 THEN R
  ELSE Append(R, [username |-> s, total |-> n, processed |-> 0,
                  status |-> "in_progress"])

\* startOrResumeRun(username, tweetUrls), had it reported the whole run as
\* remaining.
RunInfoWhole(R, s, n) ==
  LET r == FindIncompleteRun(R, s) IN
  IF r # 0
    THEN [isResume |-> TRUE, runId |-> r, totalTweets |-> R[r].total,
          processedTweets |-> R[r].processed, remainingTweets |-> R[r].total]
    ELSE [isResume |-> FALSE, runId |-> Len(R) + 1, totalTweets |-> n,
          processedTweets |-> 0, remainingTweets |-> n]

\* startOrResumeRun(username, tweetUrls): what it returns.
RunInfo(R, s, n) ==
  LET r == FindIncompleteRun(R, s) IN
  IF r # 0
    THEN [isResume |-> TRUE, runId |-> r, totalTweets |-> R[r].total,
          processedTweets |-> R[r].processed,
          remainingTweets |-> R[r].total - R[r].processed]
    ELSE [isResume |-> FALSE, runId |-> Len(R) + 1, totalTweets |-> n,
          processedTweets |-> 0, remainingTweets |-> n]

\* tweetRepository.create(...): insert, or on conflict update status and
\* processed_at; the row becomes the most recently stamped one.
Stored(T) == {t \in TweetIds : T[t].status # "none"}
CreateTweet(T, t, account, status) ==
  LET present == t \in Stored(T)
      n == Cardinality(Stored(T))
  IN [u \in TweetIds |->
        IF u = t
          THEN [status |-> status,
                account |-> IF present THEN T[t].account ELSE account,
                stamp |-> IF present THEN n ELSE n + 1]
        ELSE IF present /\ T[u].stamp > T[t].stamp
          THEN [T[u] EXCEPT !.stamp = @ - 1]
        ELSE T[u]]

\* getProcessedTweetIds(accountId, limit), had it selected the rows of every
\* status.
RecordedOf(T, account) ==
  {t \in TweetIds : T[t].status # "none" /\ T[t].account = account}

\* getProcessedTweetIds(accountId, limit): ORDER BY processed_at DESC LIMIT ?
ProcessedOf(T, account) ==
  {t \in TweetIds : T[t].status = "processed" /\ T[t].account = account}
GetProcessedTweetIds(T, account, limit) ==
  {t \in ProcessedOf(T, account) :
     Cardinality({u \in ProcessedOf(T, account) : T[u].stamp > T[t].stamp}) < limit}

\* Array.from(tweetUrls), newest first, reversed for download order 'oldest'.
RECURSIVE Descending(_)
Descending(S) ==
  IF S = {} THEN <<>>
  ELSE LET m == CHOOSE t \in S : \A u \in S : u <= t
       IN <<m>> \o Descending(S \ {m})
Reverse(q) == [k \in 1..Len(q) |-> q[Len(q) + 1 - k]]

crawlVars == <<phase, crawlUser, processedTweetIds, allSeenTweetIds, tweetArray,
               tweetPos>>

\* knownSet.has(tweetId) and this.processedTweetIds.has(tweetId), had they
\* found nothing.
HasNothing(S, t) == FALSE

\* knownSet.has(tweetId), this.processedTweetIds.has(tweetId)
Has(S, t) == t \in S

\* The new URLs of the scan: the tweets seen that are not known.
NewUrls(seen, known) == {t \in seen : ~Has(known, t)}

\* The tracking of the newest tweet ID of the run: the ID replaces the one
\* kept when none is kept or when it is larger (BigInt comparison).
TrackNewest(newest, t) == IF newest = 0 \/ t > newest THEN t ELSE newest

\* accountRepository.updateLastRun(accountId, lastTweetId):
\* UPDATE accounts SET last_tweet_id = ? WHERE id = ?
UpdateLastRun(A, s, t) == [A EXCEPT ![s] = t]

\* processAccount(account) up to the scroll of the media page: the resume
\* check (the operator declines to resume when `resume` is false), then
\* fetchAllImagesForUser() loads the known tweet IDs.
StartAccount(s, resume) ==
  /\ phase = "idle" /\ ~shuttingDown
  /\ LET r == FindIncompleteRun(runs, s)
     IN runs' = IF r # 0 /\ ~resume THEN CancelRun(runs, r) ELSE runs
  /\ crawlUser' = s
  /\ processedTweetIds' = GetProcessedTweetIds(tweets, s, MaxCachedTweetIds)
  /\ phase' = "collecting"
  /\ allSeenTweetIds' = {}
  /\ tweetArray' = <<>>
  /\ tweetPos' = 0
  /\ newestTweetIdThisRun' = 0
  /\ UNCHANGED <<currentRunId, tweets, shuttingDown, lastTweetId>>

\* collectTweetUrlsFromMediaPage() returned, having seen the tweets `visible`
\* (early stop disabled): with nothing new the crawl ends, else the run is
\* started or resumed and the loop begins.
CollectDone(visible, oldestFirst) ==
  /\ phase = "collecting"
  /\ allSeenTweetIds' = visible
  /\ LET urls == NewUrls(visible, processedTweetIds) IN
     IF urls = {}
       THEN /\ phase' = "idle"
            /\ UNCHANGED <<runs, currentRunId, tweetArray, tweetPos>>
       ELSE /\ Len(runs) < MaxRuns \/ FindIncompleteRun(runs, crawlUser) # 0
            /\ runs' = StartOrResumeRun(runs, crawlUser, Cardinality(urls))
            /\ currentRunId' = RunInfo(runs, crawlUser, Cardinality(urls)).runId
            /\ tweetArray' = IF oldestFirst THEN Reverse(Descending(urls))
                                            ELSE Descending(urls)
            /\ tweetPos' = 1
            /\ phase' = "processing"
  /\ UNCHANGED <<crawlUser, processedTweetIds, tweets, shuttingDown, accountVars>>

\* collectTweetUrlsFromMediaPage() threw: processAccount() catches the error
\* and calls interruptRun().
CollectFailed ==
  /\ phase = "collecting"
  /\ runs' = InterruptRun(runs, currentRunId)
  /\ phase' = "idle"
  /\ UNCHANGED <<currentRunId, crawlUser, processedTweetIds, allSeenTweetIds,
                 tweetArray, tweetPos, tweets, shuttingDown, accountVars>>

\* processSingleTweetWithDownload() for the next tweet, up to the call of
\* getDataFromTweetPage(): a tweet in the known-ID set is skipped.
ProcessNext ==
  /\ phase = "processing" /\ tweetPos <= Len(tweetArray)
  /\ IF Has(processedTweetIds, tweetArray[tweetPos])
       THEN tweetPos' = tweetPos + 1 /\ UNCHANGED phase
       ELSE phase' = "fetching" /\ UNCHANGED tweetPos
  /\ UNCHANGED <<runs, currentRunId, crawlUser, processedTweetIds, allSeenTweetIds,
                 tweetArray, tweets, shuttingDown, accountVars>>

\* getDataFromTweetPage() returned data with images ("data"), data without
\* images ("empty"), null ("null") or threw ("throw"): the tweet row is
\* written and the run's count goes up, unless it threw; a tweet with images
\* is tracked as the newest of the run.
FetchDone(outcome) ==
  /\ phase = "fetching"
  /\ LET t == tweetArray[tweetPos] IN
     IF outcome = "throw"
       THEN UNCHANGED <<tweets, runs, newestTweetIdThisRun>>
       ELSE /\ currentRunId # 0 => runs[currentRunId].processed < MaxProcessed
            /\ tweets' = CreateTweet(tweets, t, crawlUser,
                                     IF outcome = "null" THEN "failed" ELSE "processed")
            /\ newestTweetIdThisRun' =
                 IF outcome = "data" THEN TrackNewest(newestTweetIdThisRun, t)
                                     ELSE newestTweetIdThisRun
            /\ runs' = MarkTweetProcessed(runs, currentRunId)
  /\ tweetPos' = tweetPos + 1
  /\ phase' = "processing"
  /\ UNCHANGED <<currentRunId, crawlUser, processedTweetIds, allSeenTweetIds,
                 tweetArray, shuttingDown, lastTweetId>>

\* The loop of fetchAllImagesForUser() is over: updateLastRun() if a tweet
\* was tracked, then completeRun().
FinishRun ==
  /\ phase = "processing" /\ tweetPos > Len(tweetArray)
  /\ lastTweetId' = IF newestTweetIdThisRun # 0
                      THEN UpdateLastRun(lastTweetId, crawlUser, newestTweetIdThisRun)
                      ELSE lastTweetId
  /\ runs' = CompleteRun(runs, currentRunId)
  /\ currentRunId' = 0
  /\ phase' = "idle"
  /\ UNCHANGED <<crawlUser, processedTweetIds, allSeenTweetIds, tweetArray,
                 tweetPos, tweets, shuttingDown, newestTweetIdThisRun>>

\* gracefulShutdown(signal) up to interruptRun(); the crawl loop goes on
\* while the handler awaits its cleanups.
ShutdownInterrupt ==
  /\ ~shuttingDown
  /\ runs' = InterruptRun(runs, currentRunId)
  /\ shuttingDown' = TRUE
  /\ UNCHANGED <<currentRunId, tweets, crawlVars, accountVars>>

\* The process ends (process.exit(0) of gracefulShutdown, or a kill without
\* handler); the next process starts with the database as it is.
ProcessExit ==
  /\ currentRunId' = 0
  /\ phase' = "idle"
  /\ crawlUser' = 0
  /\ processedTweetIds' = {}
  /\ allSeenTweetIds' = {}
  /\ tweetArray' = <<>>
  /\ tweetPos' = 0
  /\ shuttingDown' = FALSE
  /\ newestTweetIdThisRun' = 0
  /\ UNCHANGED <<runs, tweets, lastTweetId>>

(***************************************************************************)
(* ProgressTracker, method by method                                       *)
(*                                                                         *)
(* The methods are called in any order and with any arguments.  A deleted  *)
(* row keeps its position with status "deleted": ids are AUTOINCREMENT and *)
(* never given twice.                                                      *)
(***************************************************************************)

\* A username as it is given: the name of a source, with or without a
\* leading @, in lower case or not.
Usernames == [at : BOOLEAN, upper : BOOLEAN, name : Sources]

\* username.toLowerCase().replace(/^@/, '')
ToLowerCase(u) == [u EXCEPT !.upper = FALSE]
StripAt(u) == [u EXCEPT !.at = FALSE]
Normalize(u) == StripAt(ToLowerCase(u))

NoLedgerCall == [op |-> "none"]

LedgerInit == lastCall = NoLedgerCall

\* cleanupOldRuns(): the rows started more than 7 days ago, those up to
\* `cutoff`, are deleted if they are interrupted.
CleanupOldRuns(R, cutoff) ==
  [r \in DOMAIN R |->
     IF r <= cutoff /\ R[r].status = "interrupted"
       THEN [R[r] EXCEPT !.status = "deleted"] ELSE R[r]]

\* UPDATE ... WHERE id = ? changes nothing when no row has the id.
HasRow(R, r) == r \in DOMAIN R /\ R[r].status # "deleted"

ledgerFrame ==
  UNCHANGED <<tweets, phase, crawlUser, processedTweetIds, allSeenTweetIds,
              tweetArray, tweetPos, shuttingDown, accountVars>>

\* startOrResumeRun(username, tweetUrls) with n URLs: the name is normalized,
\* and normalized once more by findIncompleteRun().
LedgerStart(u, n) ==
  LET s == Normalize(Normalize(u)).name IN
  /\ Len(runs) < MaxRuns \/ FindIncompleteRun(runs, s) # 0
  /\ runs' = StartOrResumeRun(runs, s, n)
  /\ currentRunId' = RunInfo(runs, s, n).runId
  /\ lastCall' = [op |-> "startOrResumeRun", username |-> u, n |-> n,
                   returned |-> RunInfo(runs, s, n)]
  /\ ledgerFrame

\* markTweetProcessed(result)
LedgerMark ==
  /\ HasRow(runs, currentRunId) => runs[currentRunId].processed < MaxProcessed
  /\ runs' = IF HasRow(runs, currentRunId)
               THEN MarkTweetProcessed(runs, currentRunId) ELSE runs
  /\ lastCall' = [op |-> "markTweetProcessed"]
  /\ UNCHANGED currentRunId
  /\ ledgerFrame

\* completeRun()
LedgerComplete ==
  /\ runs' = IF HasRow(runs, currentRunId) THEN CompleteRun(runs, currentRunId) ELSE runs
  /\ currentRunId' = 0
  /\ lastCall' = [op |-> "completeRun"]
  /\ ledgerFrame

\* interruptRun()
LedgerInterrupt ==
  /\ runs' = IF HasRow(runs, currentRunId) THEN InterruptRun(runs, currentRunId) ELSE runs
  /\ lastCall' = [op |-> "interruptRun"]
  /\ UNCHANGED currentRunId
  /\ ledgerFrame

\* cancelRun(runId)
LedgerCancel(r) ==
  /\ runs' = IF HasRow(runs, r) THEN CancelRun(runs, r) ELSE runs
  /\ lastCall' = [op |-> "cancelRun"]
  /\ UNCHANGED currentRunId
  /\ ledgerFrame

\* cleanupOldRuns()
LedgerCleanup(cutoff) ==
  /\ runs' = CleanupOldRuns(runs, cutoff)
  /\ lastCall' = [op |-> "cleanupOldRuns"]
  /\ UNCHANGED currentRunId
  /\ ledgerFrame

\* The process ends and the next one starts: a new ProgressTracker.
LedgerRestart ==
  /\ currentRunId' = 0
  /\ lastCall' = NoLedgerCall
  /\ UNCHANGED runs
  /\ ledgerFrame

(***************************************************************************)
(* TweetRepository and ImageRepository, statement by statement             *)
(*                                                                         *)
(* A table is the sequence of its rows; the id of a row (INTEGER PRIMARY   *)
(* KEY AUTOINCREMENT) is its position.  0 stands for NULL / undefined.     *)
(***************************************************************************)

AccountIds    == 1..NumAccounts
TweetStatuses == {"processed", "failed"}
ImageStatuses == {"downloaded", "failed"}
Reasons       == {"none", "http_error"}

(***************************************************************************)
(* runMigrations()                                                         *)
(*                                                                         *)
(* The database is a record db of the schema_version rows, of what each    *)
(* migration's up() has left in the schema, and of the commits so far.     *)
(***************************************************************************)

\* MIGRATIONS: the array of migrations, by version, in the order of the array.
Versions == 1..NumMigrations
MIGRATIONS == [k \in Versions |-> k]

NoMigrate == [before |-> {}, failing |-> {}, threw |-> FALSE, called |-> FALSE]

\* A database file that has just been created.
SchemaInit ==
  /\ schemaVersion = {}
  /\ schemaChanges = [v \in Versions |-> "none"]
  /\ applied = <<>>
  /\ lastMigrate = NoMigrate

Db == [ledger |-> schemaVersion, changes |-> schemaChanges, log |-> applied]

\* SELECT MAX(version) as version FROM schema_version; `|| 0`
CurrentVersion(ledger) ==
  IF ledger = {} THEN 0 ELSE CHOOSE v \in ledger : \A u \in ledger : u <= v

\* Statements that are run one by one, each committed as it ends: what a
\* failing up() did before it threw stays.
Autocommit(db, v, fails) ==
  IF fails
    THEN [db EXCEPT !.changes[v] = "partial"]
    ELSE [db EXCEPT !.changes[v] = "full", !.ledger = @ \cup {v},
                    !.log = Append(@, v)]

\* db.transaction(() => { migration.up(db); INSERT INTO schema_version })():
\* when up() or the INSERT throws the transaction is rolled back.
Transaction(db, v, fails) ==
  IF fails
    THEN db
    ELSE [db EXCEPT !.changes[v] = "full", !.ledger = @ \cup {v},
                    !.log = Append(@, v)]

\* runMigrations(): the for loop from entry k of MIGRATIONS on; an exception
\* of a transaction leaves the function.
RECURSIVE ApplyPending(_, _, _, _)
ApplyPending(db, k, currentVersion, failing) ==
  IF k > Len(MIGRATIONS) THEN [db |-> db, threw |-> FALSE]
  ELSE IF MIGRATIONS[k] > currentVersion
    THEN IF MIGRATIONS[k] \in failing
           THEN [db |-> Transaction(db, MIGRATIONS[k], TRUE), threw |-> TRUE]
           ELSE ApplyPending(Transaction(db, MIGRATIONS[k], FALSE), k + 1,
                             currentVersion, failing)
  ELSE ApplyPending(db, k + 1, currentVersion, failing)

\* runMigrations(), with the migrations in `failing` throwing when applied.
RunMigrations(failing) ==
  LET r == ApplyPending(Db, 1, CurrentVersion(schemaVersion), failing)
  IN /\ schemaVersion' = r.db.ledger
     /\ schemaChanges' = r.db.changes
     /\ applied' = r.db.log
     /\ lastMigrate' = [before |-> schemaVersion, failing |-> failing,
                        threw |-> r.threw, called |-> TRUE]
     /\ UNCHANGED <<tweetRows, imageRows, lastTweet, lastImage>>

\* The objects given to tweetRepository.create().
TweetData ==
  [tweetId : TweetIds, accountId : AccountIds, imageCount : 0..MaxImageCount,
   status : TweetStatuses]
\* saveImage() gives a size and no reason with 'downloaded', and a reason and
\* no size with 'failed'.
ImageData ==
  {d \in [tweetDbId : 1..NumTweets, imageUrl : 1..NumImageUrls,
           status : ImageStatuses, statusReason : Reasons,
           fileSize : 0..MaxFileSize] :
     IF d.status = "downloaded"
       THEN d.statusReason = "none" /\ d.fileSize > 0
       ELSE d.statusReason # "none" /\ d.fileSize = 0}
ImageKeys == (1..NumTweets) \X (1..NumImageUrls)

NoData == [status |-> "none"]

\* Empty tables.
RowsInit ==
  /\ tweetRows = <<>>
  /\ imageRows = <<>>
  /\ lastTweet = [t \in TweetIds |-> NoData]
  /\ lastImage = [k \in ImageKeys |-> NoData]
  /\ SchemaInit

\* The positions of the rows that conflict with the row to insert:
\* tweet_id TEXT NOT NULL UNIQUE, and UNIQUE(tweet_id, image_url).
TweetConflicts(rows, d) == {k \in DOMAIN rows : rows[k].tweet_id = d.tweetId}
ImageConflicts(rows, d) ==
  {k \in DOMAIN rows : rows[k].tweet_id = d.tweetDbId /\ rows[k].image_url = d.imageUrl}

\* ON CONFLICT ... DO NOTHING
ConflictDoNothing(row, new) == row

\* tweets, had the statement been INSERT OR IGNORE: the row is kept.
TweetConflictIgnored(row, new) == row

\* tweets: ON CONFLICT(tweet_id) DO UPDATE SET image_count, status,
\* processed_at
TweetConflictUpdate(row, new) ==
  [row EXCEPT !.image_count = new.image_count, !.status = new.status]

\* tweetRepository.create(tweetData): the table afterwards.
TweetCreate(rows, d) ==
  LET new == [tweet_id |-> d.tweetId, account_id |-> d.accountId,
              image_count |-> d.imageCount, status |-> d.status]
  IN IF TweetConflicts(rows, d) = {}
       THEN Append(rows, new)
       ELSE [k \in DOMAIN rows |->
               IF k \in TweetConflicts(rows, d)
                 THEN TweetConflictUpdate(rows[k], new) ELSE rows[k]]

\* images: ON CONFLICT(tweet_id, image_url) DO UPDATE SET status,
\* status_reason, file_size, downloaded_at
ImageConflictUpdate(row, new) ==
  [row EXCEPT !.status = new.status, !.status_reason = new.status_reason,
              !.file_size = new.file_size]

\* The row an insert statement of ImageRepository is run with:
\* statusReason || null, fileSize || null.
ImageRow(d) ==
  [tweet_id |-> d.tweetDbId, image_url |-> d.imageUrl, status |-> d.status,
   status_reason |-> d.statusReason, file_size |-> d.fileSize]

\* imageRepository.create(imageData): the table afterwards.
ImageCreate(rows, d) ==
  IF ImageConflicts(rows, d) = {}
    THEN Append(rows, ImageRow(d))
    ELSE [k \in DOMAIN rows |->
            IF k \in ImageConflicts(rows, d)
              THEN ImageConflictUpdate(rows[k], ImageRow(d)) ELSE rows[k]]

\* createBatch(images): one insert.run(...) of the prepared statement.
ImageInsertOrIgnore(rows, d) ==
  IF ImageConflicts(rows, d) = {}
    THEN Append(rows, ImageRow(d))
    ELSE [k \in DOMAIN rows |->
            IF k \in ImageConflicts(rows, d)
              THEN ConflictDoNothing(rows[k], ImageRow(d)) ELSE rows[k]]

\* createBatch(images): the transaction, image by image.
RECURSIVE ImageCreateBatch(_, _)
ImageCreateBatch(rows, images) ==
  IF images = <<>> THEN rows
  ELSE ImageCreateBatch(ImageInsertOrIgnore(rows, Head(images)), Tail(images))

\* The latest insert for each key after the inserts `images`.
RECURSIVE Latest(_, _)
Latest(last, images) ==
  IF images = <<>> THEN last
  ELSE Latest([last EXCEPT ![<<Head(images).tweetDbId, Head(images).imageUrl>>] =
                 Head(images)], Tail(images))

\* tweetRepository.create(d)
TweetRepositoryCreate(d) ==
  /\ tweetRows' = TweetCreate(tweetRows, d)
  /\ lastTweet' = [lastTweet EXCEPT ![d.tweetId] = d]
  /\ UNCHANGED <<imageRows, lastImage, schemaVars>>

\* imageRepository.create(d), for a tweet row that exists (FOREIGN KEY).
ImageRepositoryCreate(d) ==
  /\ d.tweetDbId \in DOMAIN tweetRows
  /\ imageRows' = ImageCreate(imageRows, d)
  /\ lastImage' = Latest(lastImage, <<d>>)
  /\ UNCHANGED <<tweetRows, lastTweet, schemaVars>>

\* imageRepository.createBatch(images), for tweet rows that exist.
ImageRepositoryCreateBatch(images) ==
  /\ \A k \in DOMAIN images : images[k].tweetDbId \in DOMAIN tweetRows
  /\ imageRows' = ImageCreateBatch(imageRows, images)
  /\ lastImage' = Latest(lastImage, images)
  /\ UNCHANGED <<tweetRows, lastTweet, schemaVars>>

\* Each specification starts the components it leaves alone in one fixed
\* state.
InitLedger == SemInit /\ semMax = 1 /\ PoolInit /\ ProcInit /\ StoreInit /\ RowsInit /\ LedgerInit /\ PermitInit
InitRows == SemInit /\ semMax = 1 /\ PoolInit /\ ProcInit /\ StoreInit /\ RowsInit /\ LedgerInit /\ PermitInit
InitSem  == SemInit /\ PoolInit /\ ProcInit /\ StoreInit /\ RowsInit /\ LedgerInit /\ PermitInit
InitPool == SemInit /\ semMax = 1 /\ PoolInit /\ ProcInit /\ StoreInit /\ RowsInit /\ LedgerInit /\ PermitInit
InitProc == SemInit /\ semMax = 1 /\ PoolInit /\ ProcInit /\ StoreInit /\ RowsInit /\ LedgerInit /\ PermitInit
InitStore == SemInit /\ semMax = 1 /\ PoolInit /\ ProcInit /\ StoreInit /\ RowsInit /\ LedgerInit /\ PermitInit

NextSem ==
  \/ \E c \in Callers : SemAcquire(c) /\ UNCHANGED <<poolVars, procVars, storeVars, rowVars, ledgerVars, permitVars>>
  \/ \E c \in Callers : SemResume(c) /\ UNCHANGED <<poolVars, procVars, storeVars, rowVars, ledgerVars, permitVars>>
  \/ \E c \in Callers : SemRelease(c) /\ UNCHANGED <<poolVars, procVars, storeVars, rowVars, ledgerVars, permitVars>>

SpecSem == InitSem /\ [][NextSem]_vars

NextPool ==
  \/ Initialize /\ UNCHANGED <<semVars, procVars, storeVars, rowVars, ledgerVars, permitVars>>
  \/ \E c \in Clients : AcquirePage(c) /\ UNCHANGED <<semVars, procVars, storeVars, rowVars, ledgerVars, permitVars>>
  \/ \E c \in Clients : AcquireCreated(c) /\ UNCHANGED <<semVars, procVars, storeVars, rowVars, ledgerVars, permitVars>>
  \/ \E c \in Clients : AcquireCreateFailed(c) /\ UNCHANGED <<semVars, procVars, storeVars, rowVars, ledgerVars, permitVars>>
  \/ \E c \in Clients : Release(c) /\ UNCHANGED <<semVars, procVars, storeVars, rowVars, ledgerVars, permitVars>>
  \/ \E i \in Slots : SatCreated(i) /\ UNCHANGED <<semVars, procVars, storeVars, rowVars, ledgerVars, permitVars>>
  \/ \E i \in Slots : SatCreateFailed(i) /\ UNCHANGED <<semVars, procVars, storeVars, rowVars, ledgerVars, permitVars>>
  \/ \E p \in PageIds : PageError(p) /\ UNCHANGED <<semVars, procVars, storeVars, rowVars, ledgerVars, permitVars>>
  \/ \E p \in PageIds : PageClose(p) /\ UNCHANGED <<semVars, procVars, storeVars, rowVars, ledgerVars, permitVars>>
  \/ Disconnect /\ UNCHANGED <<semVars, procVars, storeVars, rowVars, ledgerVars, permitVars>>

SpecPool == InitPool /\ [][NextPool]_vars

\* The pool whose browser has no fault, with cleanup() called at any moment
\* while clients acquire and release.
NextCleanup ==
  \/ Initialize /\ UNCHANGED <<semVars, procVars, storeVars, rowVars, ledgerVars, permitVars>>
  \/ \E c \in Clients : AcquirePage(c) /\ UNCHANGED <<semVars, procVars, storeVars, rowVars, ledgerVars, permitVars>>
  \/ \E c \in Clients : AcquireCreated(c) /\ UNCHANGED <<semVars, procVars, storeVars, rowVars, ledgerVars, permitVars>>
  \/ \E c \in Clients : AcquireCreateFailed(c) /\ UNCHANGED <<semVars, procVars, storeVars, rowVars, ledgerVars, permitVars>>
  \/ \E c \in Clients : Release(c) /\ UNCHANGED <<semVars, procVars, storeVars, rowVars, ledgerVars, permitVars>>
  \/ \E i \in Slots : SatCreated(i) /\ UNCHANGED <<semVars, procVars, storeVars, rowVars, ledgerVars, permitVars>>
  \/ \E i \in Slots : SatCreateFailed(i) /\ UNCHANGED <<semVars, procVars, storeVars, rowVars, ledgerVars, permitVars>>
  \/ Cleanup /\ UNCHANGED <<semVars, procVars, storeVars, rowVars, ledgerVars, permitVars>>
  \/ \E closed \in BOOLEAN : CleanupClosed(closed) /\ UNCHANGED <<semVars, procVars, storeVars, rowVars, ledgerVars, permitVars>>

SpecCleanup == InitPool /\ [][NextCleanup]_vars

NextProc ==
  \/ Initialize /\ UNCHANGED <<semVars, procVars, storeVars, rowVars, ledgerVars, permitVars>>
  \/ \E n \in 1..NumItems : ~isProcessing /\ ProcessAll(n) /\ UNCHANGED <<semVars, storeVars, rowVars, ledgerVars, permitVars>>
  \/ LaunchWorker /\ UNCHANGED <<semVars, storeVars, rowVars, ledgerVars, permitVars>>
  \/ \E w \in Workers : Pull(w) /\ UNCHANGED <<semVars, storeVars, rowVars, ledgerVars, permitVars>>
  \/ \E w \in Workers : BackoffWake(w) /\ UNCHANGED <<semVars, storeVars, rowVars, ledgerVars, permitVars>>
  \/ \E w \in Workers : StaggerWake(w) /\ UNCHANGED <<semVars, storeVars, rowVars, ledgerVars, permitVars>>
  \/ \E w \in Workers : Acquired(w) /\ UNCHANGED <<semVars, storeVars, rowVars, ledgerVars, permitVars>>
  \/ \E w \in Workers : ExtractOk(w) /\ UNCHANGED <<semVars, storeVars, rowVars, ledgerVars, permitVars>>
  \/ \E w \in Workers, e \in ErrorKinds : ExtractFailed(w, e) /\ UNCHANGED <<semVars, storeVars, rowVars, ledgerVars, permitVars>>
  \/ \E w \in Workers : RetryWake(w) /\ UNCHANGED <<semVars, storeVars, rowVars, ledgerVars, permitVars>>
  \/ Settle /\ UNCHANGED <<semVars, storeVars, rowVars, ledgerVars, permitVars>>
  \/ Tick /\ UNCHANGED <<semVars, storeVars, rowVars, ledgerVars, permitVars>>
  \/ \E w \in Workers : AcquireCreated(w) /\ UNCHANGED <<semVars, procVars, storeVars, rowVars, ledgerVars, permitVars>>
  \/ \E w \in Workers : AcquireCreateFailed(w) /\ UNCHANGED <<semVars, procVars, storeVars, rowVars, ledgerVars, permitVars>>
  \/ \E i \in Slots : SatCreated(i) /\ UNCHANGED <<semVars, procVars, storeVars, rowVars, ledgerVars, permitVars>>
  \/ \E i \in Slots : SatCreateFailed(i) /\ UNCHANGED <<semVars, procVars, storeVars, rowVars, ledgerVars, permitVars>>
  \/ \E p \in PageIds : PageError(p) /\ UNCHANGED <<semVars, procVars, storeVars, rowVars, ledgerVars, permitVars>>
  \/ \E p \in PageIds : PageClose(p) /\ UNCHANGED <<semVars, procVars, storeVars, rowVars, ledgerVars, permitVars>>
  \/ Disconnect /\ UNCHANGED <<semVars, procVars, storeVars, rowVars, ledgerVars, permitVars>>

SpecProc == InitProc /\ [][NextProc]_vars

\* The runs in which every processFn call returns and the browser has no
\* fault: no page event, no disconnect (createPage may still throw);
\* processAll() is called once.  What is pending happens in the end: timers
\* fire, browser calls settle.
NextClean ==
  \/ Initialize /\ UNCHANGED <<semVars, procVars, storeVars, rowVars, ledgerVars, permitVars>>
  \/ \E n \in 1..NumItems : ~isProcessing /\ ProcessAll(n) /\ UNCHANGED <<semVars, storeVars, rowVars, ledgerVars, permitVars>>
  \/ LaunchWorker /\ UNCHANGED <<semVars, storeVars, rowVars, ledgerVars, permitVars>>
  \/ \E w \in Workers : Pull(w) /\ UNCHANGED <<semVars, storeVars, rowVars, ledgerVars, permitVars>>
  \/ \E w \in Workers : StaggerWake(w) /\ UNCHANGED <<semVars, storeVars, rowVars, ledgerVars, permitVars>>
  \/ \E w \in Workers : Acquired(w) /\ UNCHANGED <<semVars, storeVars, rowVars, ledgerVars, permitVars>>
  \/ \E w \in Workers : ExtractOk(w) /\ UNCHANGED <<semVars, storeVars, rowVars, ledgerVars, permitVars>>
  \/ Settle /\ UNCHANGED <<semVars, storeVars, rowVars, ledgerVars, permitVars>>
  \/ Tick /\ UNCHANGED <<semVars, storeVars, rowVars, ledgerVars, permitVars>>
  \/ \E w \in Workers : AcquireCreated(w) /\ UNCHANGED <<semVars, procVars, storeVars, rowVars, ledgerVars, permitVars>>
  \/ \E w \in Workers : AcquireCreateFailed(w) /\ UNCHANGED <<semVars, procVars, storeVars, rowVars, ledgerVars, permitVars>>

SpecClean == InitProc /\ [][NextClean]_vars /\ WF_vars(NextClean)

\* The runs of a browser without fault in which processFn may time out (a
\* retryable error), stop() may be called and processAll() may be called
\* again; what is pending happens in the end.
NextStop ==
  \/ Initialize /\ UNCHANGED <<semVars, procVars, storeVars, rowVars, ledgerVars, permitVars>>
  \/ \E n \in 1..NumItems : ProcessAll(n) /\ UNCHANGED <<semVars, storeVars, rowVars, ledgerVars, permitVars>>
  \/ LaunchWorker /\ UNCHANGED <<semVars, storeVars, rowVars, ledgerVars, permitVars>>
  \/ \E w \in Workers : Pull(w) /\ UNCHANGED <<semVars, storeVars, rowVars, ledgerVars, permitVars>>
  \/ \E w \in Workers : StaggerWake(w) /\ UNCHANGED <<semVars, storeVars, rowVars, ledgerVars, permitVars>>
  \/ \E w \in Workers : Acquired(w) /\ UNCHANGED <<semVars, storeVars, rowVars, ledgerVars, permitVars>>
  \/ \E w \in Workers : ExtractOk(w) /\ UNCHANGED <<semVars, storeVars, rowVars, ledgerVars, permitVars>>
  \/ \E w \in Workers : ExtractFailed(w, "NavigationTimeout") /\ UNCHANGED <<semVars, storeVars, rowVars, ledgerVars, permitVars>>
  \/ \E w \in Workers : RetryWake(w) /\ UNCHANGED <<semVars, storeVars, rowVars, ledgerVars, permitVars>>
  \/ Stop /\ UNCHANGED <<semVars, storeVars, rowVars, ledgerVars, permitVars>>
  \/ Settle /\ UNCHANGED <<semVars, storeVars, rowVars, ledgerVars, permitVars>>
  \/ Tick /\ UNCHANGED <<semVars, storeVars, rowVars, ledgerVars, permitVars>>
  \/ \E w \in Workers : AcquireCreated(w) /\ UNCHANGED <<semVars, procVars, storeVars, rowVars, ledgerVars, permitVars>>
  \/ \E w \in Workers : AcquireCreateFailed(w) /\ UNCHANGED <<semVars, procVars, storeVars, rowVars, ledgerVars, permitVars>>

SpecStop == InitProc /\ [][NextStop]_vars /\ WF_vars(NextStop)

\* The processor with transient failures and rate limits only: no page
\* fault, no stop().
NextRetry ==
  \/ Initialize /\ UNCHANGED <<semVars, procVars, storeVars, rowVars, ledgerVars, permitVars>>
  \/ \E n \in 1..NumItems : ~isProcessing /\ ProcessAll(n) /\ UNCHANGED <<semVars, storeVars, rowVars, ledgerVars, permitVars>>
  \/ LaunchWorker /\ UNCHANGED <<semVars, storeVars, rowVars, ledgerVars, permitVars>>
  \/ \E w \in Workers : Pull(w) /\ UNCHANGED <<semVars, storeVars, rowVars, ledgerVars, permitVars>>
  \/ \E w \in Workers : BackoffWake(w) /\ UNCHANGED <<semVars, storeVars, rowVars, ledgerVars, permitVars>>
  \/ \E w \in Workers : StaggerWake(w) /\ UNCHANGED <<semVars, storeVars, rowVars, ledgerVars, permitVars>>
  \/ \E w \in Workers : Acquired(w) /\ UNCHANGED <<semVars, storeVars, rowVars, ledgerVars, permitVars>>
  \/ \E w \in Workers : ExtractOk(w) /\ UNCHANGED <<semVars, storeVars, rowVars, ledgerVars, permitVars>>
  \/ \E w \in Workers, e \in {"RateLimit", "NavigationTimeout"} :
       ExtractFailedWithin(w, e, ManyRateLimits) /\ UNCHANGED <<semVars, storeVars, rowVars, ledgerVars, permitVars>>
  \/ \E w \in Workers : RetryWake(w) /\ UNCHANGED <<semVars, storeVars, rowVars, ledgerVars, permitVars>>
  \/ Settle /\ UNCHANGED <<semVars, storeVars, rowVars, ledgerVars, permitVars>>
  \/ Tick /\ UNCHANGED <<semVars, storeVars, rowVars, ledgerVars, permitVars>>
  \/ \E w \in Workers : AcquireCreated(w) /\ UNCHANGED <<semVars, procVars, storeVars, rowVars, ledgerVars, permitVars>>
  \/ \E w \in Workers : AcquireCreateFailed(w) /\ UNCHANGED <<semVars, procVars, storeVars, rowVars, ledgerVars, permitVars>>

SpecRetry == InitProc /\ [][NextRetry]_vars

NextStore ==
  \/ \E s \in Sources, resume \in BOOLEAN :
       StartAccount(s, resume) /\ UNCHANGED <<semVars, poolVars, procVars, rowVars, ledgerVars, permitVars>>
  \/ \E visible \in SUBSET TweetIds, oldestFirst \in BOOLEAN :
       /\ \A t \in visible : Owner(t) = crawlUser
       /\ CollectDone(visible, oldestFirst)
       /\ UNCHANGED <<semVars, poolVars, procVars, rowVars, ledgerVars, permitVars>>
  \/ CollectFailed /\ UNCHANGED <<semVars, poolVars, procVars, rowVars, ledgerVars, permitVars>>
  \/ ProcessNext /\ UNCHANGED <<semVars, poolVars, procVars, rowVars, ledgerVars, permitVars>>
  \/ \E outcome \in {"data", "empty", "null", "throw"} :
       FetchDone(outcome) /\ UNCHANGED <<semVars, poolVars, procVars, rowVars, ledgerVars, permitVars>>
  \/ FinishRun /\ UNCHANGED <<semVars, poolVars, procVars, rowVars, ledgerVars, permitVars>>
  \/ ShutdownInterrupt /\ UNCHANGED <<semVars, poolVars, procVars, rowVars, ledgerVars, permitVars>>
  \/ ProcessExit /\ UNCHANGED <<semVars, poolVars, procVars, rowVars, ledgerVars, permitVars>>

SpecStore == InitStore /\ [][NextStore]_vars

NextRows ==
  \/ \E d \in TweetData :
       TweetRepositoryCreate(d) /\ UNCHANGED <<semVars, poolVars, procVars, storeVars, ledgerVars, permitVars>>
  \/ \E d \in ImageData :
       ImageRepositoryCreate(d) /\ UNCHANGED <<semVars, poolVars, procVars, storeVars, ledgerVars, permitVars>>
  \/ \E n \in 1..MaxBatch : \E images \in [1..n -> ImageData] :
       ImageRepositoryCreateBatch(images)
         /\ UNCHANGED <<semVars, poolVars, procVars, storeVars, ledgerVars, permitVars>>

SpecRows == InitRows /\ [][NextRows]_vars

\* The pool with its callers and the page events, the browser staying
\* connected; acquirePage() is called on the initialized pool, as the
\* processor does.  Every holder releases in the end, and a createPage() that is
\* awaited again and again succeeds in the end.
otherVars == <<semVars, procVars, storeVars, rowVars, ledgerVars, permitVars>>

NextPoolLive ==
  \/ Initialize /\ UNCHANGED otherVars
  \/ \E c \in Clients : initialized /\ AcquirePage(c) /\ UNCHANGED otherVars
  \/ \E c \in Clients : AcquireCreated(c) /\ UNCHANGED otherVars
  \/ \E c \in Clients : AcquireCreateFailed(c) /\ UNCHANGED otherVars
  \/ \E c \in Clients : Release(c) /\ UNCHANGED otherVars
  \/ \E i \in Slots : SatCreated(i) /\ UNCHANGED otherVars
  \/ \E i \in Slots : SatCreateFailed(i) /\ UNCHANGED otherVars
  \/ \E p \in PageIds : PageError(p) /\ UNCHANGED otherVars
  \/ \E p \in PageIds : PageClose(p) /\ UNCHANGED otherVars

SpecPoolLive ==
  /\ InitPool /\ [][NextPoolLive]_vars
  /\ \A c \in Clients : WF_vars(Release(c) /\ UNCHANGED otherVars)
  /\ \A c \in Clients : SF_vars(AcquireCreated(c) /\ UNCHANGED otherVars)
  /\ \A i \in Slots : SF_vars(SatCreated(i) /\ UNCHANGED otherVars)

\* The runs of a browser without fault in which every processFn call returns
\* and cleanup() of the pool may be called while the run is going on.
NextShutdown ==
  \/ Initialize /\ UNCHANGED <<semVars, procVars, storeVars, rowVars, ledgerVars, permitVars>>
  \/ \E n \in 1..NumItems : ~isProcessing /\ ProcessAll(n) /\ UNCHANGED <<semVars, storeVars, rowVars, ledgerVars, permitVars>>
  \/ LaunchWorker /\ UNCHANGED <<semVars, storeVars, rowVars, ledgerVars, permitVars>>
  \/ \E w \in Workers : Pull(w) /\ UNCHANGED <<semVars, storeVars, rowVars, ledgerVars, permitVars>>
  \/ \E w \in Workers : StaggerWake(w) /\ UNCHANGED <<semVars, storeVars, rowVars, ledgerVars, permitVars>>
  \/ \E w \in Workers : Acquired(w) /\ UNCHANGED <<semVars, storeVars, rowVars, ledgerVars, permitVars>>
  \/ \E w \in Workers : AcquiredNull(w) /\ UNCHANGED <<semVars, storeVars, rowVars, ledgerVars, permitVars>>
  \/ \E w \in Workers : ExtractOk(w) /\ UNCHANGED <<semVars, storeVars, rowVars, ledgerVars, permitVars>>
  \/ Settle /\ UNCHANGED <<semVars, storeVars, rowVars, ledgerVars, permitVars>>
  \/ Tick /\ UNCHANGED <<semVars, storeVars, rowVars, ledgerVars, permitVars>>
  \/ \E w \in Workers : AcquireCreated(w) /\ UNCHANGED <<semVars, procVars, storeVars, rowVars, ledgerVars, permitVars>>
  \/ \E w \in Workers : AcquireCreateFailed(w) /\ UNCHANGED <<semVars, procVars, storeVars, rowVars, ledgerVars, permitVars>>
  \/ Cleanup /\ UNCHANGED <<semVars, procVars, storeVars, rowVars, ledgerVars, permitVars>>
  \/ \E closed \in BOOLEAN : CleanupClosed(closed) /\ UNCHANGED <<semVars, procVars, storeVars, rowVars, ledgerVars, permitVars>>

SpecShutdown == InitProc /\ [][NextShutdown]_vars

NextMigrate ==
  \E failing \in SUBSET Versions :
    RunMigrations(failing)
      /\ UNCHANGED <<semVars, poolVars, procVars, storeVars, ledgerVars, permitVars>>

SpecMigrate == InitRows /\ [][NextMigrate]_vars

NextPermit ==
  \/ \E c \in Callers :
       WithPermit(c) /\ UNCHANGED <<poolVars, procVars, storeVars, rowVars, ledgerVars>>
  \/ \E c \in Callers :
       WithPermitResume(c)
         /\ UNCHANGED <<poolVars, procVars, storeVars, rowVars, ledgerVars>>
  \/ \E c \in Callers, outcome \in Outcomes :
       FnSettled(c, outcome)
         /\ UNCHANGED <<poolVars, procVars, storeVars, rowVars, ledgerVars>>

SpecPermit == InitSem /\ [][NextPermit]_vars

NextLedger ==
  \/ \E u \in Usernames, n \in 1..MaxProcessed :
       LedgerStart(u, n) /\ UNCHANGED <<semVars, poolVars, procVars, rowVars, permitVars>>
  \/ LedgerMark /\ UNCHANGED <<semVars, poolVars, procVars, rowVars, permitVars>>
  \/ LedgerComplete /\ UNCHANGED <<semVars, poolVars, procVars, rowVars, permitVars>>
  \/ LedgerInterrupt /\ UNCHANGED <<semVars, poolVars, procVars, rowVars, permitVars>>
  \/ \E r \in 1..MaxRuns :
       LedgerCancel(r) /\ UNCHANGED <<semVars, poolVars, procVars, rowVars, permitVars>>
  \/ \E cutoff \in 0..MaxRuns :
       LedgerCleanup(cutoff) /\ UNCHANGED <<semVars, poolVars, procVars, rowVars, permitVars>>
  \/ LedgerRestart /\ UNCHANGED <<semVars, poolVars, procVars, rowVars, permitVars>>

SpecLedger == InitLedger /\ [][NextLedger]_vars

(***************************************************************************)
(* Claims                                                                  *)
(***************************************************************************)

SemHolders == {c \in Callers : semPc[c] = "in"}

\* C2: the number of callers that have completed acquire() and not yet
\* released never exceeds max, and max - current is never negative.
C2_HoldersWithinMax ==
  /\ Cardinality(SemHolders) <= semMax
  /\ semMax - semCurrent >= 0

\* The clients that hold slot i, and those that hold page p.
SlotHolders(i) == {c \in Clients : call[c].st = "holding" /\ call[c].slot = i}
PageHolders(p) == {c \in Clients : call[c].st = "holding" /\ call[c].page = p}

\* C1: no pool slot and no page is held by two callers at the same time.
C1_ExclusiveSlots ==
  /\ \A i \in Slots : Cardinality(SlotHolders(i)) <= 1
  /\ \A p \in PageIds : Cardinality(PageHolders(p)) <= 1

\* The results of the run, and how often a URL has been pulled from the queue.
Results == {results[k] : k \in DOMAIN results}
Pulled(url) == Cardinality({k \in 1..queueIndex : tweetQueue[k] = url})

\* C3: a session-expired error of processFn is never recorded as a result,
\* and whenever a worker has caught one the stop flag is set.
C3_SessionExpiryStops ==
  /\ \A r \in Results : r.error # "SessionExpired"
  /\ \A w \in Workers : wk[w].lastError = "SessionExpired" => shouldStop

\* A result pushed by the catch block of worker(): processTweetWithRetry()
\* threw because the page crashed or was closed (such a result has no
\* attempts field).
CrashResult(r) == ~r.success /\ r.attempts = 0

\* C4: an item recorded as failed because its page crashed or was closed has
\* been pulled from the queue a second time before.
C4_CrashedItemRequeued ==
  \A r \in Results : CrashResult(r) => Pulled(r.url) >= 2

\* C5: no worker makes the first processFn call for the item it has pulled
\* while a global backoff is active.
C5_BackoffRespected ==
  [][\A w \in Workers :
       (wk[w].calls = 0 /\ wk'[w].calls = 1) => backoffLeft = 0]_vars

\* processAll() awaits its workers, every worker that has not returned is
\* queued in acquirePage(), no slot is usable and nothing is left that would
\* resolve the queue.
Hung ==
  /\ procState = "awaiting"
  /\ \A w \in Workers : \/ wk[w].pc = "done"
                         \/ (wk[w].pc = "acquire" /\ call[w].st = "queued")
  /\ \E w \in Workers : wk[w].pc = "acquire"
  /\ \A i \in Slots : pageStatus[i] = "crashed" /\ sat[i] = 0

\* C6: processAll() is never left waiting for ever on a pool that cannot
\* supply a page.
C6_PoolFailureEndsRun == ~Hung

\* An item whose only failed try ended in a RateLimitError and whose next
\* try succeeded.
RateLimitedOnce(r) ==
  r.success /\ r.ghost.rateLimits = 1 /\ r.ghost.calls = 2

\* The counters agree with the results.
CountsMatchResults ==
  /\ processedCount = Cardinality({k \in DOMAIN results : results[k].success})
  /\ failedCount = Cardinality({k \in DOMAIN results : ~results[k].success})

\* C9 (amended): for an item whose extraction raises a rate-limit error once
\* and then succeeds, global backoff is triggered once, the item is counted
\* as processed and not as failed, and attempts is 1: the rate-limited try
\* is not counted.
C9_RateLimitedTryNotCounted ==
  /\ CountsMatchResults
  /\ \A r \in Results :
       RateLimitedOnce(r) => r.ghost.triggers = 1 /\ r.attempts = 1

\* C9 as stated: the attempts field of such an item is 2.
C9_AttemptsIsTwo ==
  \A r \in Results :
    RateLimitedOnce(r) => r.ghost.triggers = 1 /\ r.attempts = 2

\* A run has recorded an item that was rate-limited once and then succeeded.
C9_Witness ==
  \E r \in Results : RateLimitedOnce(r) /\ processedCount >= 1

\* C10: onTweetComplete and onProgress have been called for every item in
\* results (a worker that has pushed a result is back at the top of its loop
\* and pulls next).
C10_EveryResultReported ==
  \A r \in Results : r.url \in onComplete /\ r.url \in onProgress

\* C7: an interrupted ledger entry is the newest entry of its source: the
\* run after it resumed it and created no new entry.
C7_InterruptedRunResumed ==
  \A r1 \in DOMAIN runs, r2 \in DOMAIN runs :
    (r1 < r2 /\ runs[r1].username = runs[r2].username)
      => runs[r1].status # "interrupted"

\* C8: getDataFromTweetPage() is never called for a tweet whose row has
\* status processed.
C8_ProcessedNeverExtractedAgain ==
  phase = "fetching" => tweets[tweetArray[tweetPos]].status # "processed"

\* C11: once the status of a ledger entry has left in_progress, no step
\* changes it again.
C11_TerminalStatusFinal ==
  [][\A r \in DOMAIN runs :
       runs[r].status # "in_progress" => runs'[r].status = runs[r].status]_vars

\* The clients that have been given a slot and have not released it.
Holders == {c \in Clients : call[c].st = "holding"}

\* C12: with every slot of the pool given out and none released, no further
\* acquirePage() call is given a slot: there are never more holders than
\* slots.
C12_ExtraCallerWaits == Cardinality(Holders) <= PoolSize

\* processAll() has resolved; its summary has total = processed = n, failed
\* = 0 and n results, one for each input item.
CleanSummary ==
  /\ procState = "resolved"
  /\ processedCount = Len(tweetQueue)
  /\ failedCount = 0
  /\ Len(results) = Len(tweetQueue)
  /\ \A u \in 1..Len(tweetQueue) :
       Cardinality({k \in DOMAIN results : results[k].url = u /\ results[k].success}) = 1

\* C13: when every processFn call succeeds at the first attempt and no page
\* crashes, a processAll() that has been started resolves with total = n,
\* processed = n, failed = 0 and n results, one per input item.
C13_AllSucceedAllReported == isProcessing ~> CleanSummary

\* The URLs of the run, and where an item can be: in results, still ahead in
\* the queue, or in the hands of a worker.
QueuedUrls == {tweetQueue[k] : k \in DOMAIN tweetQueue}
InHand(w) == wk[w].pc \in {"backoff", "stagger", "acquire", "extract", "retry"}
Accounted(u) ==
  \/ \E r \in Results : r.url = u
  \/ \E k \in DOMAIN tweetQueue : k > queueIndex /\ tweetQueue[k] = u
  \/ \E w \in Workers : InHand(w) /\ wk[w].url = u

\* C14: the only error a worker() call throws is a session expiry, so no
\* other failure of an item makes processAll() reject; short of that no item
\* is lost (each is in results, ahead in the queue or in a worker's hands),
\* and a run that has resolved has an entry in results for every item.
C14_ItemFailureIsData ==
  /\ \A w \in Workers : wk[w].pc = "threw" => wk[w].lastError = "SessionExpired"
  /\ procState = "rejected" => \E w \in Workers : wk[w].pc = "threw"
  /\ (\A w \in Workers : wk[w].pc # "threw") => \A u \in QueuedUrls : Accounted(u)
  /\ procState = "resolved" => \A u \in QueuedUrls : \E r \in Results : r.url = u

\* A run has resolved in which one item failed and an item recorded after it
\* succeeded.
C14_Witness ==
  /\ procState = "resolved"
  /\ \E j \in DOMAIN results, k \in DOMAIN results :
       j < k /\ ~results[j].success /\ results[k].success

\* In this step worker w caught a RateLimitError: its count of them went up,
\* or the result of its item shows one more (the page was closed as well and
\* the item ended there).
Signalled(w) ==
  /\ wk[w].pc = "extract"
  /\ \/ wk'[w].rateLimits = wk[w].rateLimits + 1
     \/ /\ Len(results') = Len(results) + 1
        /\ results'[Len(results')].url = wk[w].url
        /\ results'[Len(results')].ghost.rateLimits = wk[w].rateLimits + 1

\* C15: a rate-limit signal leaves the backoff deadline at the time of the
\* signal plus rateLimitBackoff, whatever was left of an active window; the
\* time left never exceeds rateLimitBackoff, and it only goes down as time
\* passes, one unit per unit of time (the deadline never moves earlier).
C15_DeadlineIsSignalPlusD ==
  [][/\ \A w \in Workers : Signalled(w) => backoffLeft' = RateLimitBackoff
     /\ backoffLeft' <= RateLimitBackoff
     /\ backoffLeft' < backoffLeft =>
          /\ backoffLeft' = backoffLeft - 1
          /\ results' = results
          /\ \A w \in Workers : wk'[w].pc = wk[w].pc]_vars

\* A worker has signalled a rate limit inside a window another worker had
\* opened, and the window is rateLimitBackoff long again.
C15_Witness ==
  \E w \in Workers :
    /\ wk[w].pc = "extract" /\ wk[w].triggers = 1
    /\ wk[w].window > 0 /\ wk[w].window < RateLimitBackoff
    /\ backoffLeft = RateLimitBackoff

\* C16: when cleanup() completes, no slot is idle or busy, no page of the
\* pool is live and no caller is queued in acquirePage().
C16_CleanupLeavesPoolEmpty ==
  [][(cleanupAt.st # "done" /\ cleanupAt'.st = "done") =>
       /\ \A i \in Slots : pageStatus'[i] \notin {"idle", "busy"}
       /\ \A i \in Slots : pages'[i] = 0
       /\ waiting' = <<>>]_vars

\* stop() has been called: the flag is set and not by a worker that threw.
Stopped == shouldStop /\ \A w \in Workers : wk[w].pc # "threw"

\* The item worker w has in hand stays in its hands, or its result is pushed,
\* or it is put back in the queue.
Carried(w) ==
  \/ InHand(w)' /\ wk'[w].url = wk[w].url
  \/ /\ Len(results') = Len(results) + 1
     /\ results'[Len(results')].url = wk[w].url
  \/ /\ Len(tweetQueue') = Len(tweetQueue) + 1
     /\ tweetQueue'[Len(tweetQueue')] = wk[w].url

C18_BusyCallThrows ==
  [][(isProcessing /\ allCalls'.made = allCalls.made + 1) =>
       /\ allCalls'.threw = allCalls.threw + 1
       /\ UNCHANGED <<tweetQueue, queueIndex, processedCount, failedCount,
                      results, shouldStop, isProcessing>>]_vars

\* A call made during a run has thrown and the run has recorded a result
\* since.
C18_Witness ==
  allCalls.threw = 1 /\ isProcessing /\ queueIndex >= 1 /\ Len(results) >= 1

\* The rows of tweets with tweet ID t.
RowsOfTweet(t) == {k \in DOMAIN tweetRows : tweetRows[k].tweet_id = t}

\* C19: for every tweet ID that has been inserted there is exactly one row,
\* with the status and image count of the latest insert, whichever account
\* the inserts named; the table has no more rows than tweet IDs inserted.
C19_TweetUpsert ==
  /\ \A t \in TweetIds :
       IF lastTweet[t] = NoData THEN RowsOfTweet(t) = {}
       ELSE /\ Cardinality(RowsOfTweet(t)) = 1
            /\ \A k \in RowsOfTweet(t) :
                 /\ tweetRows[k].status = lastTweet[t].status
                 /\ tweetRows[k].image_count = lastTweet[t].imageCount
  /\ Len(tweetRows) = Cardinality({t \in TweetIds : lastTweet[t] # NoData})

\* A tweet ID has been inserted again, with another status and for another
\* account than its row was created with.
C19_Witness ==
  \E k \in DOMAIN tweetRows :
    LET d == lastTweet[tweetRows[k].tweet_id] IN
    /\ d.accountId # tweetRows[k].account_id
    /\ d.status = "failed" /\ tweetRows[k].status = "failed"
    /\ Len(tweetRows) = NumTweets

\* The rows of images with key k.
RowsOfImage(key) ==
  {k \in DOMAIN imageRows :
     imageRows[k].tweet_id = key[1] /\ imageRows[k].image_url = key[2]}

\* C20: for every (tweet, URL) key that has been inserted, through create()
\* or createBatch(), there is exactly one row, with the status, reason and
\* size of the latest insert.
C20_ImageUpsert ==
  \A key \in ImageKeys :
    IF lastImage[key] = NoData THEN RowsOfImage(key) = {}
    ELSE /\ Cardinality(RowsOfImage(key)) = 1
         /\ \A k \in RowsOfImage(key) :
              /\ imageRows[k].status = lastImage[key].status
              /\ imageRows[k].status_reason = lastImage[key].statusReason
              /\ imageRows[k].file_size = lastImage[key].fileSize

\* The latest call was startOrResumeRun(), for a source that had an
\* in_progress entry.
ResumedCall ==
  /\ lastCall'.op = "startOrResumeRun"
  /\ InProgressRuns(runs, Normalize(lastCall'.username).name) # {}

KnownCandidates == {t \in allSeenTweetIds : t \in processedTweetIds}

\* Some ledger entry's processed count changes.
Counted == \E r \in DOMAIN runs : runs'[r].processed # runs[r].processed

\* C22: during a run a candidate whose ID is in the known-ID set loaded at
\* the start of the run is skipped: getDataFromTweetPage() is not called for
\* it, its row keeps its status and account, and the run's processed count
\* goes up only for a tweet that is not such a candidate.
C22_KnownCandidateSkipped ==
  [][/\ phase' = "fetching" => tweetArray'[tweetPos'] \notin KnownCandidates'
     /\ (phase # "idle" /\ phase' # "idle") =>
          \A t \in KnownCandidates :
            /\ tweets'[t].status = tweets[t].status
            /\ tweets'[t].account = tweets[t].account
     /\ Counted => phase = "fetching" /\ tweetArray[tweetPos] \notin KnownCandidates]_vars

\* A run whose scan saw a known tweet and a new one has extracted the new
\* tweet and is over, with one tweet counted.
C22_Witness ==
  /\ phase = "idle"
  /\ KnownCandidates # {}
  /\ allSeenTweetIds # KnownCandidates
  /\ \E r \in DOMAIN runs :
       runs[r].status = "completed" /\ runs[r].total = 1 /\ runs[r].processed = 1
  /\ \A t \in allSeenTweetIds : tweets[t].status # "none"

\* The tweets recorded with status failed.
FailedTweets == {t \in TweetIds : tweets[t].status = "failed"}

\* The tweets of tweetArray.
ToProcess(q) == {q[k] : k \in DOMAIN q}

\* C23: a tweet recorded as failed is not in the known-ID set a run loads;
\* the run that sees it on the timeline puts it in its tweetArray and does
\* not skip it when its turn comes; this holds in every run for as long as
\* the tweet is recorded as failed.
C23_FailedStaysEligible ==
  [][/\ (processedTweetIds' # processedTweetIds) =>
          \A t \in FailedTweets : t \notin processedTweetIds'
     /\ (phase = "collecting" /\ phase' # "idle") =>
          \A t \in FailedTweets : t \in allSeenTweetIds' => t \in ToProcess(tweetArray')
     /\ (phase = "processing" /\ phase' = "processing" /\ tweetPos' = tweetPos + 1)
          => tweetArray[tweetPos] \notin FailedTweets]_vars

\* In a later run of its source, getDataFromTweetPage() is called again for a
\* tweet that is recorded as failed, while another tweet is known.
C23_Witness ==
  /\ phase = "fetching"
  /\ tweetArray[tweetPos] \in FailedTweets
  /\ processedTweetIds # {}
  /\ Len(runs) = 2

\* The withPermit() call of caller c settles in this step.
Settles(c) == settled[c] = "pending" /\ settled'[c] \in Outcomes

\* C24: when a withPermit(fn) call settles, however fn ended, the permit
\* is released once: the active count goes down by one and the caller that
\* has waited longest, if there is one, is woken; so the active count is
\* always the number of calls that have acquired and not yet settled.
C24_PermitReleasedOnEveryPath ==
  [][/\ \A c \in Callers : Settles(c) =>
          /\ semCurrent' = semCurrent - 1
          /\ semPc'[c] = "out"
          /\ semWaiting # <<>> =>
               /\ semPc'[Head(semWaiting)] = "woken"
               /\ semWaiting' = Tail(semWaiting)
     /\ semCurrent' = Cardinality({c \in Callers : semPc'[c] = "in"})]_vars

\* A call whose fn threw and one whose fn rejected have settled, no call
\* holds a permit, and the count is back at 0.
C24_Witness ==
  /\ \E c \in Callers : settled[c] = "threw"
  /\ \E c \in Callers : settled[c] = "rejected"
  /\ \A c \in Callers : semPc[c] = "out"
  /\ semCurrent = 0

\* The callers a step wakes, and the callers that hold a permit or have been
\* woken to take one.
Woken == {c \in Callers : semPc[c] = "waiting" /\ semPc'[c] = "woken"}
Entitled == {c \in Callers : semPc[c] \in {"in", "woken"}}

\* C26: a release() wakes at most one waiting caller, the one that has
\* waited longest, and the freed permit is that caller's: the callers that
\* hold a permit, together with the woken callers that have not resumed
\* yet, never outnumber the permits.
C26_FreedPermitGoesToWaiter ==
  [][/\ Cardinality(Woken) <= 1
     /\ \A c \in Woken : c = Head(semWaiting)
     /\ Cardinality(Entitled') <= semMax']_vars

\* Worker w calls processFn again for the item whose latest try ended in a
\* RateLimitError.
RetriesRateLimited(w) ==
  /\ wk'[w].calls = wk[w].calls + 1
  /\ wk'[w].lastError = "RateLimit"

\* C25: the worker that caught the rate-limit error does not call processFn
\* again for its item while the global backoff it triggered is active.
C25_RateLimitedRetryWaits ==
  [][\A w \in Workers : RetriesRateLimited(w) => backoffLeft' = 0]_vars

\* The processFn calls of a processTweetWithRetry() call that did not end in
\* a RateLimitError, the running one included.
Tries(g) == g.calls - g.rateLimits

\* A result of an item whose tries all failed with retryable errors.
Exhausted(r) ==
  ~r.success /\ r.attempts = MaxRetries /\ r.error # "RateLimit" /\ IsRetryableError(r.error)

\* C27: an item whose extraction keeps failing with retryable errors is
\* recorded as failed after exactly maxRetries calls of processFn that did
\* not end in a rate-limit error; while it is retried the number of such
\* calls is the attempt number, whatever rate-limit errors came in between.
C27_RetryBudgetIsExact ==
  /\ \A k \in DOMAIN results :
       Exhausted(results[k]) => Tries(results[k].ghost) = MaxRetries
  /\ \A w \in Workers :
       wk[w].pc \in {"extract", "retry"} =>
         /\ Tries(wk[w]) = wk[w].attempt
         /\ wk[w].attempt <= MaxRetries
  /\ failedCount = Cardinality({k \in DOMAIN results : ~results[k].success})

\* An item has been recorded as failed after maxRetries timeouts with
\* rate-limit errors before, between and after them.
C27_Witness ==
  \E k \in DOMAIN results :
    /\ Exhausted(results[k])
    /\ results[k].ghost.rateLimits = ManyRateLimits
    /\ results[k].ghost.calls = MaxRetries + ManyRateLimits

\* Client c calls its release callback in this step, for a slot whose page
\* is valid, while callers are queued.
ReleasesToQueue(c) ==
  /\ call[c].st = "holding" /\ call'[c].st = "none"
  /\ pages[call[c].slot] # 0 /\ ~IsClosed(Pool, pages[call[c].slot])
  /\ waiting # <<>>

\* The first k queued callers leave the queue with a slot and the others
\* stay queued in their order, in front of any caller that joins.
ServedInOrder(k) ==
  /\ \A j \in 1..k : call'[waiting[j]].st = "holding"
  /\ \A j \in (k + 1)..Len(waiting) : call'[waiting[j]].st = "queued"
  /\ Len(waiting') >= Len(waiting) - k
  /\ SubSeq(waiting', 1, Len(waiting) - k) = SubSeq(waiting, k + 1, Len(waiting))

\* C28: a valid slot released while callers are queued goes to the caller
\* queued longest, with its page, and is busy, never idle, afterwards;
\* queued callers leave the queue in the order in which they joined it.
C28_ReleasedSlotGoesToOldestWaiter ==
  [][/\ \A c \in Clients : ReleasesToQueue(c) =>
          /\ call'[Head(waiting)] =
               [st |-> "holding", slot |-> call[c].slot, page |-> pages[call[c].slot]]
          /\ pageStatus'[call[c].slot] = "busy"
          /\ waiting' = Tail(waiting)
          /\ \A d \in Clients \ {Head(waiting)} :
               call'[d].st = "holding" => call'[d] = call[d]
     /\ \E k \in 0..Len(waiting) : ServedInOrder(k)]_vars

\* With no fault so far, the caller queued longest has just been given a
\* slot while another caller stays queued.
C28_Witness ==
  /\ events = 0 /\ connected
  /\ \E c \in served :
       /\ call[c].st = "holding"
       /\ pageStatus[call[c].slot] = "busy"
       /\ pageState[call[c].page] = "live"
  /\ waiting # <<>>
  /\ \A i \in Slots : sat[i] = 0

\* Worker w is handed the item at queue position k in this step: it has the
\* item afterwards, or has put it back at the end of the queue already
\* because acquirePage() threw.
HandedTo(w, k) ==
  /\ wk[w].pc = "top"
  /\ \/ wk'[w].url = tweetQueue[k] /\ wk'[w].pc \notin {"top", "done", "idle", "threw"}
     \/ wk'[w].pc = "top" /\ tweetQueue' = Append(tweetQueue, tweetQueue[k])
  /\ \A v \in Workers \ {w} : wk'[v] = wk[v]

\* C29: under every interleaving the cursor moves one position at a time,
\* and only by handing the item at the next position to exactly one worker;
\* it never exceeds the queue length; during a run the queue only grows at
\* its end, so positions handed out keep their items.
C29_EachPositionHandedOnce ==
  [][/\ queueIndex' <= Len(tweetQueue')
     /\ isProcessing =>
          /\ \/ queueIndex' = queueIndex
             \/ /\ queueIndex' = queueIndex + 1
                /\ \E w \in Workers : HandedTo(w, queueIndex + 1)
          /\ Len(tweetQueue') >= Len(tweetQueue)
          /\ SubSeq(tweetQueue', 1, Len(tweetQueue)) = tweetQueue
     /\ \A w \in Workers :
          (wk[w].pc = "top" /\ wk'[w].url # 0) => queueIndex' = queueIndex + 1]_vars

\* An item was put back at the end of the queue after the browser had
\* disconnected, while the item of an earlier position is being extracted.
C29_Witness ==
  /\ ~connected
  /\ queueIndex >= 2 /\ queueIndex < Len(tweetQueue)
  /\ tweetQueue[Len(tweetQueue)] = tweetQueue[queueIndex]
  /\ \E w \in Workers : wk[w].pc = "extract" /\ wk[w].url = tweetQueue[1]

\* The results that the step has appended for an item that was not found.
NotFoundRecorded ==
  IF Len(results') = Len(results) + 1 /\ results'[Len(results')].error = "TweetNotFound"
    THEN {results'[Len(results')]}
    ELSE {}

\* C31: when processFn fails with a non-retryable error (tweet not found)
\* processFn is not called again for the item and the item is recorded as
\* failed in the step that caught the error, with no wait before it: no
\* worker is ever left retrying, sleeping or extracting after such an error.
C31_NonRetryableFailsAtOnce ==
  [][/\ \A w \in Workers :
          wk'[w].lastError = "TweetNotFound" => wk'[w].pc \notin {"extract", "retry"}
     /\ \A r \in NotFoundRecorded :
          /\ ~r.success
          /\ failedCount' = failedCount + 1
          /\ \E w \in Workers :
               /\ wk[w].pc = "extract" /\ wk[w].url = r.url
               /\ r.ghost.calls = wk[w].calls
               /\ wk'[w].pc = "top"
               /\ wk'[w].calls = 0]_vars

\* An item was recorded as failed after the one call of processFn that found
\* no tweet, with tries to spare.
C31_Witness ==
  \E k \in DOMAIN results :
    /\ results[k].error = "TweetNotFound"
    /\ results[k].ghost.calls = 1
    /\ results[k].ghost.calls < MaxRetries

\* The step is a call of initialize() on a pool that was constructed and
\* never initialized.
InitializeCalled ==
  /\ ~initialized
  /\ \A i \in Slots : pageStatus[i] = "none"
  /\ initialized' \/ pageStatus' # pageStatus

PendingBefore == {v \in Versions : v > CurrentVersion(lastMigrate.before)}
FailingPending == PendingBefore \cap lastMigrate.failing

\* C33: however often runMigrations() runs, the committed migrations are
\* each committed once and in ascending version order, the ledger holds
\* exactly them, and the schema holds all changes of a recorded migration
\* and none of any other; a run that meets a failing migration throws with
\* the pending migrations below it recorded next to what was recorded
\* before, and a run that meets none leaves every migration recorded.
C33_MigrationsOnceInOrderAtomic ==
  /\ \A i, j \in DOMAIN applied : i < j => applied[i] < applied[j]
  /\ schemaVersion = {applied[i] : i \in DOMAIN applied}
  /\ \A v \in Versions :
       schemaChanges[v] = IF v \in schemaVersion THEN "full" ELSE "none"
  /\ lastMigrate.called =>
       IF FailingPending = {}
         THEN ~lastMigrate.threw /\ schemaVersion = Versions
         ELSE /\ lastMigrate.threw
              /\ schemaVersion =
                   lastMigrate.before \cup
                     {v \in PendingBefore : \A f \in FailingPending : v < f}

\* A run found a migration recorded, applied the next one and failed on the
\* one after it.
C33_Witness ==
  /\ lastMigrate.threw
  /\ lastMigrate.before # {}
  /\ schemaVersion # lastMigrate.before
  /\ schemaVersion # Versions

\* The workers that are inside worker(): started and neither returned nor
\* thrown.
ActiveWorkers == {w \in Workers : wk[w].pc \notin {"idle", "done", "threw"}}

\* C34: when processAll() has settled, by resolving or by rejecting, no
\* worker of the run is still active.
C34_SettledRunHasNoActiveWorker ==
  procState \in {"resolved", "rejected"} => ActiveWorkers = {}

\* C35: every slot whose status is busy is held by exactly one caller.
C35_BusySlotHasOneHolder ==
  \A i \in Slots : pageStatus[i] = "busy" => Cardinality(SlotHolders(i)) = 1

\* C36: no item is lost: every item of the run is in results, ahead in the
\* queue or in the hands of a worker that has not exited, and no item is in
\* results twice; a run that resolves without stop() having been called
\* returns processed + failed = total.
C36_NoItemLost ==
  /\ \A u \in QueuedUrls : Accounted(u)
  /\ \A j, k \in DOMAIN results : results[j].url = results[k].url => j = k
  /\ (procState = "resolved" /\ ~shouldStop) =>
       processedCount + failedCount = Cardinality(QueuedUrls)

\* C37: a caller queued inside acquirePage() is resolved in the end, when
\* every holder releases in the end and page creation succeeds in the end.
C37_QueuedCallerIsResolved ==
  \A c \in Clients : (call[c].st = "queued") ~> (call[c].st # "queued")

\* C38: for every entry of the run ledger processed_tweets is at most
\* total_tweets.
C38_ProcessedWithinTotal ==
  \A r \in DOMAIN runs :
    runs[r].processed <= runs[r].total

\* C39: the last_tweet_id of a source never decreases.
C39_WatermarkNeverDecreases ==
  [][\A s \in Sources : lastTweetId'[s] >= lastTweetId[s]]_vars

\* cleanup() has completed on a pool whose pages it closed.
CleanedUp ==
  /\ cleanupAt.st = "done"
  /\ \E p \in DOMAIN pageState : pageState[p] = "closed"

\* C40: an acquirePage() call made once cleanup() has completed neither takes
\* a page nor starts re-creating one in a slot that cleanup() marked crashed.
C40_PoolStaysShutDown ==
  [][CleanedUp =>
       \A c \in Clients :
         call[c].st = "none" => call[c].st' \notin {"creating", "holding"}]_vars

=============================================================================
